---- MODULE Spec2Model ----
(***************************************************************************)
(* Project-memory data layer of the progress-tracker plugin                *)
(* (plugins/progress-tracker/hooks/scripts/project_memory.py).             *)
(*                                                                         *)
(* Two specifications share the definitions below:                         *)
(*   Spec    one process working on the in-memory document: the calls      *)
(*           append_capability, batch_upsert_capabilities,                 *)
(*           register_rejections, save_memory and load_memory, each as     *)
(*           one atomic call;                                              *)
(*   SpecFS  two CLI processes (main) on one memory path, with             *)
(*           load_memory and save_memory split into their file-system      *)
(*           steps, a process that may be killed inside save_memory, and   *)
(*           the I/O errors the code catches.                              *)
(*                                                                         *)
(* Text is a sequence of one-character strings.  A Python value is a       *)
(* record [t, n, s]: t is the type tag, n the integer (t = "int"), s the   *)
(* text (t = "str").                                                       *)
(***************************************************************************)
EXTENDS Integers, Sequences, FiniteSets, TLC

\* ------------------------------------------------------------------ bounds
\* Latest reading of the wall clock (utc_now_iso and the second-resolution
\* stamps of the temp and backup names read the same clock).
MaxClock == 2
\* Calls made by the single process of Spec.
MaxCalls == 3

\* json.dump hands the text to the file in pieces; a document's text is
\* modelled as NChunks pieces.
NChunks == 2

\* The tokens of a selection, and the largest length of the list that
\* parse_index_selection selects from.
MaxTokens == 3
MaxTotal == 3

\* Instants (half seconds) the clock of SpecUndo runs through, and the calls
\* made in it.
MaxInstant == 3
MaxUndoCalls == 3

\* Task ids of a workflow, and the calls made in SpecWF.
MaxTask == 3
MaxWorkflowCalls == 4

\* Requests the UI server answers and writes of other programs in SpecUI.
MaxRequests == 4

\* Times _normalize_memory_shape is applied to a document in SpecNorm.
MaxNormalizations == 2

\* ------------------------------------------------------- program constants
SCHEMA_VERSION == "1.0"
DEFAULT_MAX_SYNC_HISTORY == 50
DEFAULT_MAX_REJECTED_FINGERPRINTS == 500

\* ------------------------------------------------------------ Python values
PyNone == [t |-> "none", n |-> 0, s |-> <<>>]
\* A key that the dict does not have.
Absent == [t |-> "absent", n |-> 0, s |-> <<>>]
PyInt(k) == [t |-> "int", n |-> k, s |-> <<>>]
PyText(x) == [t |-> "str", n |-> 0, s |-> x]
\* An integer beyond the range of a float (a JSON number of more than 308
\* digits); s abbreviates its decimal text.
PyBigInt == [t |-> "bigint", n |-> 0, s |-> <<"1", "e", "4", "0", "0">>]

DigitChars == <<"0", "1", "2", "3", "4", "5", "6", "7", "8", "9">>

\* The decimal text of a natural number.
RECURSIVE Digits(_)
Digits(k) == IF k < 10 THEN <<DigitChars[k + 1]>>
             ELSE Digits(k \div 10) \o <<DigitChars[(k % 10) + 1]>>

\* str(value)
PyStr(v) == CASE v.t = "none" -> <<"N", "o", "n", "e">>
              [] v.t = "int"  -> Digits(v.n)
              [] OTHER        -> v.s

\* bool(value)
Truthy(v) == CASE v.t = "none" -> FALSE
               [] v.t = "absent" -> FALSE
               [] v.t = "int"  -> v.n # 0
               [] OTHER        -> v.s # <<>>

\* dict.get(key, default) on the value stored under the key
Get(v, default) == IF v.t = "absent" THEN default ELSE v

IsSpace(c) == c = " "

RECURSIVE LStrip(_)
LStrip(x) == IF x # <<>> /\ IsSpace(Head(x)) THEN LStrip(Tail(x)) ELSE x

RECURSIVE RStrip(_)
RStrip(x) == IF x # <<>> /\ IsSpace(x[Len(x)]) THEN RStrip(SubSeq(x, 1, Len(x) - 1)) ELSE x

\* str.strip()
Strip(x) == RStrip(LStrip(x))

LowerChar(c) == CASE c = "A" -> "a"
                  [] c = "B" -> "b"
                  [] c = "N" -> "n"
                  [] OTHER   -> c

\* str.lower()
Lower(x) == [i \in 1..Len(x) |-> LowerChar(x[i])]

\* re.sub(r"\s+", " ", x)
RECURSIVE CollapseSpaces(_)
CollapseSpaces(x) ==
    IF x = <<>> THEN <<>>
    ELSE IF IsSpace(Head(x))
         THEN <<" ">> \o CollapseSpaces(LStrip(x))
         ELSE <<Head(x)>> \o CollapseSpaces(Tail(x))

normalize_text(value) ==
    IF value.t = "none" THEN <<>>
    ELSE CollapseSpaces(Lower(Strip(PyStr(value))))

\* hashlib.sha1(raw).hexdigest()[:16].  The digest is taken to be free of
\* collisions: it is represented by the text it was computed from, behind a
\* marker that no other text of the model starts with.
Sha1Hex16(raw) == <<"#">> \o raw

compute_fingerprint(title, commit_hash, feature_id) ==
    LET normalized_title == normalize_text(title)
        normalized_commit == Strip(IF Truthy(commit_hash) THEN PyStr(commit_hash) ELSE <<>>)
        normalized_feature_id == IF feature_id.t = "none" THEN <<>> ELSE PyStr(feature_id)
        raw == normalized_title \o <<"|">> \o normalized_commit \o <<"|">> \o normalized_feature_id
    IN Sha1Hex16(raw)

\* --------------------------------------------------------------- documents
\* The memory document.  Timestamps are readings of the clock (0 stands for
\* the empty string).  bad names the fields whose value is missing or of
\* the wrong JSON type; such a field carries its zero value here.
_default_memory(now) ==
    [schema_version |-> SCHEMA_VERSION,
     created_at |-> now,
     updated_at |-> now,
     next_capability_seq |-> 1,
     last_synced_commit |-> PyNone,
     capabilities |-> <<>>,
     rejected_fingerprints |-> <<>>,
     sync_history |-> <<>>,
     limits |-> [max_sync_history |-> DEFAULT_MAX_SYNC_HISTORY,
                 max_rejected_fingerprints |-> DEFAULT_MAX_REJECTED_FINGERPRINTS],
     bad |-> {}]

\* The limits are taken as they are.
LimitsUnchecked(data) == data.limits

_normalize_limits(data) ==
    LET whole == "limits" \in data.bad
        msh == data.limits.max_sync_history
        mrf == data.limits.max_rejected_fingerprints
    IN [max_sync_history |->
            IF whole \/ "max_sync_history" \in data.bad \/ msh <= 0
            THEN DEFAULT_MAX_SYNC_HISTORY ELSE msh,
        max_rejected_fingerprints |->
            IF whole \/ "max_rejected_fingerprints" \in data.bad \/ mrf <= 0
            THEN DEFAULT_MAX_REJECTED_FINGERPRINTS ELSE mrf]

_ensure_list(data, key) == IF key \in data.bad THEN <<>> ELSE data[key]

_normalize_memory_shape(data, now) ==
    LET defaults == _default_memory(now)
    IN [schema_version |->
            IF "schema_version" \in data.bad THEN defaults.schema_version
            ELSE data.schema_version,
        created_at |->
            IF "created_at" \in data.bad \/ data.created_at = 0 THEN defaults.created_at
            ELSE data.created_at,
        updated_at |->
            IF "updated_at" \in data.bad \/ data.updated_at = 0 THEN defaults.updated_at
            ELSE data.updated_at,
        next_capability_seq |->
            IF "next_capability_seq" \in data.bad \/ data.next_capability_seq < 1 THEN 1
            ELSE data.next_capability_seq,
        last_synced_commit |->
            IF data.last_synced_commit.t = "absent" THEN PyNone
            ELSE IF data.last_synced_commit.t \notin {"none", "str"}
                 THEN PyText(PyStr(data.last_synced_commit))
                 ELSE data.last_synced_commit,
        capabilities |-> _ensure_list(data, "capabilities"),
        rejected_fingerprints |-> _ensure_list(data, "rejected_fingerprints"),
        sync_history |-> _ensure_list(data, "sync_history"),
        limits |-> _normalize_limits(data),
        bad |-> {}]

\* What save_memory serialises: lines 229-233.
SavedDocument(data, now) ==
    LET normalized == _normalize_memory_shape(data, now)
    IN [normalized EXCEPT !.schema_version = SCHEMA_VERSION,
                          !.created_at = IF normalized.created_at = 0 THEN now
                                         ELSE normalized.created_at,
                          !.updated_at = now]

\* ---------------------------------------------------------------- payloads
\* A candidate as the caller hands it over.  kind is "dict", "str" (a bare
\* text, value in text) or "other" (any other JSON value).  The keys of a
\* dict candidate hold Python values, Absent when the key is missing; source
\* is the nested object (isdict is FALSE when the key is missing or holds
\* something that is no object).
NoSource == [isdict |-> FALSE, commit_hash |-> Absent, feature_id |-> Absent]

EmptyDict ==
    [kind |-> "dict", text |-> <<>>, title |-> Absent, summary |-> Absent,
     source |-> NoSource, commit_hash |-> Absent, source_commit |-> Absent,
     feature_id |-> Absent, fingerprint |-> Absent, confidence |-> Absent]

BareText(x) == [EmptyDict EXCEPT !.kind = "str", !.text = x]

NotAnObject == [EmptyDict EXCEPT !.kind = "other"]

\* {"title": .., "source": {"commit_hash": .., "feature_id": ..}}
NestedPayload(title, commit, feature) ==
    [EmptyDict EXCEPT !.title = title,
                      !.source = [isdict |-> TRUE, commit_hash |-> commit,
                                  feature_id |-> feature]]

\* {"title": .., "commit_hash": .., "feature_id": ..}
FlatPayload(title, commit, feature) ==
    [EmptyDict EXCEPT !.title = title, !.commit_hash = commit, !.feature_id = feature]

\* {"title": .., "source_commit": .., "feature_id": ..}
LegacyPayload(title, commit, feature) ==
    [EmptyDict EXCEPT !.title = title, !.source_commit = commit, !.feature_id = feature]

_get_source_field(payload, key, default) ==
    IF payload.source.isdict /\ payload.source[key].t # "absent"
    THEN payload.source[key]
    ELSE Get(payload[key], default)

Pad3(x) == IF Len(x) >= 3 THEN x
           ELSE [i \in 1..(3 - Len(x)) |-> "0"] \o x

\* f"CAP-{next_capability_seq:03d}"
CapId(seq) == <<"C", "A", "P", "-">> \o Pad3(Digits(seq))

\* Lines 267-276.  A confidence is counted in hundredths.  float() raises
\* TypeError for None and ValueError for a text that is no number, both
\* caught; for an integer beyond the range of a float it raises
\* OverflowError, which is not caught.
_normalize_confidence(raw_confidence, default) ==
    IF raw_confidence.t = "bigint" THEN [error |-> "OverflowError", value |-> default]
    ELSE IF raw_confidence.t = "int"
    THEN [error |-> "",
          value |-> IF raw_confidence.n < 0 THEN 0
                    ELSE IF raw_confidence.n > 1 THEN 100 ELSE 100 * raw_confidence.n]
    ELSE [error |-> "", value |-> default]

\* source_commit not read: the commit of the legacy shape is lost
PayloadFingerprintNoLegacy(payload) ==
    LET title == Strip(PyStr(Get(payload.title, PyText(<<>>))))
        commit_hash == _get_source_field(payload, "commit_hash",
                           Get(payload.commit_hash, PyText(<<>>)))
        feature_id == _get_source_field(payload, "feature_id",
                           Get(payload.feature_id, PyInt(0)))
        fingerprint == Strip(PyStr(Get(payload.fingerprint, PyText(<<>>))))
    IN IF fingerprint # <<>> THEN fingerprint
       ELSE compute_fingerprint(PyText(title), commit_hash, feature_id)

\* The fingerprint _prepare_capability gives the payload (lines 289-298).
PayloadFingerprint(payload) ==
    LET title == Strip(PyStr(Get(payload.title, PyText(<<>>))))
        commit_hash == _get_source_field(payload, "commit_hash",
                           Get(payload.source_commit, Get(payload.commit_hash, PyText(<<>>))))
        feature_id == _get_source_field(payload, "feature_id",
                           Get(payload.feature_id, PyInt(0)))
        fingerprint == Strip(PyStr(Get(payload.fingerprint, PyText(<<>>))))
    IN IF fingerprint # <<>> THEN fingerprint
       ELSE compute_fingerprint(PyText(title), commit_hash, feature_id)

\* error: "ValueError" (capability title is required), "OverflowError"
\* (from _normalize_confidence) or "" with capability the draft record;
\* raised says that there is an error.
_prepare_capability(payload, next_capability_seq, now) ==
    LET title == Strip(PyStr(Get(payload.title, PyText(<<>>))))
        summary == Strip(PyStr(Get(payload.summary, PyText(<<>>))))
        commit_hash == _get_source_field(payload, "commit_hash",
                           Get(payload.source_commit, Get(payload.commit_hash, PyText(<<>>))))
        feature_id == _get_source_field(payload, "feature_id",
                           Get(payload.feature_id, PyInt(0)))
        confidence == _normalize_confidence(Get(payload.confidence, PyInt(1)), 100)
    IN IF title = <<>>
       THEN [raised |-> TRUE, error |-> "ValueError", capability |-> <<>>]
       ELSE IF confidence.error # ""
       THEN [raised |-> TRUE, error |-> confidence.error, capability |-> <<>>]
       ELSE [raised |-> FALSE, error |-> "",
             capability |->
               <<[cap_id |-> CapId(next_capability_seq),
                  fingerprint |-> PayloadFingerprint(payload),
                  title |-> title,
                  summary |-> summary,
                  confidence |-> confidence.value,
                  source |-> [feature_id |-> IF feature_id.t = "none" THEN PyInt(0)
                                             ELSE feature_id,
                              commit_hash |-> IF Truthy(commit_hash) THEN PyStr(commit_hash)
                                              ELSE <<>>],
                  created_at |-> now,
                  updated_at |-> now]>>]

\* the stored records told apart by cap_id instead of fingerprint
ExistingCapIds(data) ==
    {data.capabilities[i].cap_id : i \in 1..Len(data.capabilities)}

\* The fingerprint of every stored capability: lines 325-327.
existing_fingerprints(data) ==
    {data.capabilities[i].fingerprint : i \in 1..Len(data.capabilities)}

\* next_capability_seq left as it was after an insert
AppendKeepingSeq(data, payload, now) ==
    LET draft == _prepare_capability(payload, data.next_capability_seq, now)
    IN IF draft.raised
       THEN [raised |-> TRUE, error |-> draft.error, status |-> "error",
             fingerprint |-> <<>>, capability |-> <<>>, data |-> data]
       ELSE IF draft.capability[1].fingerprint \in existing_fingerprints(data)
       THEN [raised |-> FALSE, error |-> "", status |-> "deduped",
             fingerprint |-> draft.capability[1].fingerprint,
             capability |-> <<>>, data |-> data]
       ELSE [raised |-> FALSE, error |-> "", status |-> "inserted",
             fingerprint |-> draft.capability[1].fingerprint,
             capability |-> draft.capability,
             data |-> [data EXCEPT !.capabilities = Append(@, draft.capability[1])]]

\* the new record put in front of the stored ones
AppendAtFront(data, payload, now) ==
    LET draft == _prepare_capability(payload, data.next_capability_seq, now)
    IN IF draft.raised
       THEN [raised |-> TRUE, error |-> draft.error, status |-> "error",
             fingerprint |-> <<>>, capability |-> <<>>, data |-> data]
       ELSE IF draft.capability[1].fingerprint \in existing_fingerprints(data)
       THEN [raised |-> FALSE, error |-> "", status |-> "deduped",
             fingerprint |-> draft.capability[1].fingerprint,
             capability |-> <<>>, data |-> data]
       ELSE [raised |-> FALSE, error |-> "", status |-> "inserted",
             fingerprint |-> draft.capability[1].fingerprint,
             capability |-> draft.capability,
             data |-> [data EXCEPT !.capabilities = draft.capability \o @,
                                   !.next_capability_seq = @ + 1]]

\* The call's outcome: raised and error (of _prepare_capability), status,
\* fingerprint, capability
\* (<<>> for None, else the one record), and data, the document as the call
\* leaves it.
append_capability(data, payload, now) ==
    LET draft == _prepare_capability(payload, data.next_capability_seq, now)
    IN IF draft.raised
       THEN [raised |-> TRUE, error |-> draft.error, status |-> "error",
             fingerprint |-> <<>>, capability |-> <<>>, data |-> data]
       ELSE LET fingerprint == draft.capability[1].fingerprint
            IN IF fingerprint \in existing_fingerprints(data)
               THEN [raised |-> FALSE, error |-> "", status |-> "deduped", fingerprint |-> fingerprint,
                     capability |-> <<>>, data |-> data]
               ELSE [raised |-> FALSE, error |-> "", status |-> "inserted", fingerprint |-> fingerprint,
                     capability |-> draft.capability,
                     data |-> [data EXCEPT
                                 !.capabilities = Append(@, draft.capability[1]),
                                 !.next_capability_seq = @ + 1]]

\* values[:max_items]: the oldest entries kept
TrimKeepingOldest(values, max_items) ==
    IF max_items <= 0 THEN <<>>
    ELSE IF Len(values) <= max_items THEN values
    ELSE SubSeq(values, 1, max_items)

_trim_list(values, max_items) ==
    IF max_items <= 0 THEN <<>>
    ELSE IF Len(values) <= max_items THEN values
    ELSE SubSeq(values, Len(values) - max_items + 1, Len(values))

\* Line 399: data.get("limits", {}).get("max_sync_history", DEFAULT_MAX_SYNC_HISTORY)
SyncHistoryLimit(data) == data.limits.max_sync_history

\* the configured limit ignored
RejectedLimitDefault(data) == DEFAULT_MAX_REJECTED_FINGERPRINTS

\* Lines 460-462
RejectedLimit(data) == data.limits.max_rejected_fingerprints

\* Lines 367-381, one candidate: acc holds the document and the tallies so
\* far.  Line 373 catches ValueError alone; any other exception leaves the
\* loop and the function, recorded in acc.error.
UpsertOne(acc, payload, now) ==
    LET result == append_capability(acc.data, payload, now)
    IN IF payload.kind # "dict" \/ result.error = "ValueError"
       THEN [acc EXCEPT !.invalid = @ + 1]
       ELSE IF result.raised
       THEN [acc EXCEPT !.error = result.error]
       ELSE IF result.status = "inserted"
       THEN [acc EXCEPT !.data = result.data,
                        !.inserted = @ + 1,
                        !.inserted_capabilities = @ \o result.capability]
       ELSE [acc EXCEPT !.deduped = @ + 1]

\* Lines 367-381: the candidates from index i on, met in order.
RECURSIVE UpsertLoop(_, _, _, _)
UpsertLoop(acc, payloads, i, now) ==
    IF i > Len(payloads) \/ acc.error # "" THEN acc
    ELSE UpsertLoop(UpsertOne(acc, payloads[i], now), payloads, i + 1, now)

\* The sync metadata of a call: every value is a Python value, Absent when
\* the key is missing.  rejected_count is an int or missing.
NoMeta ==
    [sync_id |-> Absent, rejected_count |-> Absent, commit_range |-> Absent,
     last_synced_commit |-> Absent]

\* int(sync_meta.get("rejected_count", 0) or 0)
RejectedCountOf(sync_meta) ==
    IF Truthy(sync_meta.rejected_count) THEN sync_meta.rejected_count.n ELSE 0

\* str(sync_meta.get("sync_id") or f"sync-{int(now)}")
SyncIdOf(sync_meta, now) ==
    IF Truthy(sync_meta.sync_id) THEN PyStr(sync_meta.sync_id)
    ELSE <<"s", "y", "n", "c", "-">> \o Digits(now)

\* Lines 383-412: the sync entry is appended, the history trimmed and the
\* last synced commit set; done is what the loop over the candidates left.
BatchFinish(done, payloads, sync_meta, sync_id, now) ==
    LET sync_entry ==
            [sync_id |-> sync_id,
             timestamp |-> now,
             total_candidates |-> Len(payloads),
             accepted_count |-> Len(payloads),
             inserted_count |-> done.inserted,
             deduped_count |-> done.deduped,
             invalid_count |-> done.invalid,
             rejected_count |-> RejectedCountOf(sync_meta),
             commit_range |-> PyStr(Get(sync_meta.commit_range, PyText(<<>>))),
             last_synced_commit |-> Get(sync_meta.last_synced_commit, PyNone)]
        history == Append(done.data.sync_history, sync_entry)
        trimmed == [done.data EXCEPT
                      !.sync_history = _trim_list(history, SyncHistoryLimit(done.data))]
    IN [data |-> IF Truthy(sync_meta.last_synced_commit)
                 THEN [trimmed EXCEPT !.last_synced_commit =
                                         PyText(PyStr(sync_meta.last_synced_commit))]
                 ELSE trimmed,
        sync_id |-> sync_id,
        inserted_count |-> done.inserted,
        deduped_count |-> done.deduped,
        invalid_count |-> done.invalid,
        inserted_capabilities |-> done.inserted_capabilities,
        sync_entry |-> sync_entry,
        raised |-> FALSE,
        error |-> ""]

\* The exception of a candidate that line 373 does not catch leaves the
\* function: nothing is returned and no sync entry written, and data, the
\* caller's dict, keeps the records appended before it.
BatchRaise(done) ==
    [data |-> done.data, sync_id |-> <<>>, inserted_count |-> 0, deduped_count |-> 0,
     invalid_count |-> 0, inserted_capabilities |-> <<>>, sync_entry |-> <<>>,
     raised |-> TRUE, error |-> done.error]

\* Lines 358-412 after the loop over the candidates, which left done.
BatchReturn(done, payloads, sync_meta, sync_id, now) ==
    IF done.error # "" THEN BatchRaise(done)
    ELSE BatchFinish(done, payloads, sync_meta, sync_id, now)

\* The call's outcome: raised and error (an exception of a candidate that is
\* no ValueError), the summary's fields, and data, the document as the call
\* leaves it.
batch_upsert_capabilities(data, payloads, sync_meta, now) ==
    BatchReturn(UpsertLoop([data |-> data, inserted |-> 0, deduped |-> 0, invalid |-> 0,
                            inserted_capabilities |-> <<>>, error |-> ""],
                           payloads, 1, now),
                payloads, sync_meta, SyncIdOf(sync_meta, now), now)

\* candidate.get(a) or candidate.get(b)
PyOr(a, b) == IF Truthy(a) THEN a ELSE Get(b, PyNone)

\* ok is FALSE when the function returns None.
_extract_fingerprint_from_rejection(candidate) ==
    IF candidate.kind = "str"
    THEN [ok |-> Strip(candidate.text) # <<>>, fingerprint |-> Strip(candidate.text)]
    ELSE IF candidate.kind # "dict"
    THEN [ok |-> FALSE, fingerprint |-> <<>>]
    ELSE LET fingerprint == Strip(PyStr(Get(candidate.fingerprint, PyText(<<>>))))
             title == PyOr(candidate.title, candidate.summary)
             flat_commit == PyOr(candidate.source_commit, candidate.commit_hash)
             flat_feature == Get(candidate.feature_id, PyNone)
             \* a missing source defaults to {} and is an object
             nested == candidate.source.isdict \/ candidate.source = NoSource
             commit_hash == IF nested THEN Get(candidate.source.commit_hash, flat_commit)
                            ELSE flat_commit
             feature_id == IF nested THEN Get(candidate.source.feature_id, flat_feature)
                           ELSE flat_feature
         IN IF fingerprint # <<>> THEN [ok |-> TRUE, fingerprint |-> fingerprint]
            ELSE IF ~Truthy(title) THEN [ok |-> FALSE, fingerprint |-> <<>>]
            ELSE [ok |-> TRUE,
                  fingerprint |-> compute_fingerprint(title, commit_hash, feature_id)]

SeqToSet(x) == {x[i] : i \in 1..Len(x)}

\* every fingerprint appended, present already or not
RECURSIVE RejectLoopNoSkip(_, _, _)
RejectLoopNoSkip(acc, payloads, i) ==
    IF i > Len(payloads) THEN acc
    ELSE LET got == _extract_fingerprint_from_rejection(payloads[i])
         IN IF ~got.ok
            THEN RejectLoopNoSkip([acc EXCEPT !.invalid = @ + 1], payloads, i + 1)
            ELSE RejectLoopNoSkip([acc EXCEPT !.fingerprints = Append(@, got.fingerprint),
                                              !.existing = @ \cup {got.fingerprint},
                                              !.added = Append(@, got.fingerprint)],
                                  payloads, i + 1)

\* Lines 449-458: the candidates from index i on.
RECURSIVE RejectLoop(_, _, _)
RejectLoop(acc, payloads, i) ==
    IF i > Len(payloads) THEN acc
    ELSE LET got == _extract_fingerprint_from_rejection(payloads[i])
         IN IF ~got.ok
            THEN RejectLoop([acc EXCEPT !.invalid = @ + 1], payloads, i + 1)
            ELSE IF got.fingerprint \in acc.existing
            THEN RejectLoop(acc, payloads, i + 1)
            ELSE RejectLoop([acc EXCEPT !.fingerprints = Append(@, got.fingerprint),
                                        !.existing = @ \cup {got.fingerprint},
                                        !.added = Append(@, got.fingerprint)],
                            payloads, i + 1)

\* the oldest entry whose sync_id matches gets the count
RECURSIVE MarkOldest(_, _, _, _)
MarkOldest(history, i, sync_id, count) ==
    LET k == Len(history) + 1 - i
    IN IF i < 1 THEN history
       ELSE IF history[k].sync_id = PyStr(sync_id)
       THEN [history EXCEPT ![k].rejected_count = count]
       ELSE MarkOldest(history, i - 1, sync_id, count)

\* Lines 465-470: the newest entry whose sync_id matches gets the count.
RECURSIVE MarkRejected(_, _, _, _)
MarkRejected(history, i, sync_id, count) ==
    IF i < 1 THEN history
    ELSE IF history[i].sync_id = PyStr(sync_id)
    THEN [history EXCEPT ![i].rejected_count = count]
    ELSE MarkRejected(history, i - 1, sync_id, count)

register_rejections(data, payloads, sync_id) ==
    LET done == RejectLoop([fingerprints |-> data.rejected_fingerprints,
                            existing |-> SeqToSet(data.rejected_fingerprints),
                            added |-> <<>>, invalid |-> 0], payloads, 1)
        trimmed == _trim_list(done.fingerprints, RejectedLimit(data))
        history == IF Truthy(sync_id)
                   THEN MarkRejected(data.sync_history, Len(data.sync_history),
                                     sync_id, Len(payloads))
                   ELSE data.sync_history
    IN [data |-> [data EXCEPT !.rejected_fingerprints = trimmed,
                              !.sync_history = history],
        sync_id |-> sync_id,
        added_count |-> Len(done.added),
        invalid_count |-> done.invalid,
        added_fingerprints |-> done.added]

\* ------------------------------------------------- parse_index_selection
\* str.split(sep): the pieces of x between the occurrences of sep
RECURSIVE Split(_, _)
Split(x, sep) ==
    IF \A i \in 1..Len(x) : x[i] # sep THEN <<x>>
    ELSE LET k == CHOOSE i \in 1..Len(x) :
                      x[i] = sep /\ \A j \in 1..(i - 1) : x[j] # sep
         IN <<SubSeq(x, 1, k - 1)>> \o Split(SubSeq(x, k + 1, Len(x)), sep)

\* str.split(sep, 1): the text before the first sep, and the rest
SplitOnce(x, sep) ==
    LET k == CHOOSE i \in 1..Len(x) : x[i] = sep /\ \A j \in 1..(i - 1) : x[j] # sep
    IN <<SubSeq(x, 1, k - 1), SubSeq(x, k + 1, Len(x))>>

\* str.isdigit() on the characters of the model
IsDigit(x) == x # <<>> /\ \A i \in 1..Len(x) : \E d \in 1..10 : x[i] = DigitChars[d]

DigitValue(c) == (CHOOSE d \in 1..10 : DigitChars[d] = c) - 1

\* int(x) of a text of digits
RECURSIVE ToInt(_)
ToInt(x) == IF x = <<>> THEN 0
            ELSE 10 * ToInt(SubSeq(x, 1, Len(x) - 1)) + DigitValue(x[Len(x)])

\* sorted(selected), largest first
RECURSIVE SortedDescending(_)
SortedDescending(selected) ==
    IF selected = {} THEN <<>>
    ELSE LET m == CHOOSE v \in selected : \A w \in selected : w <= v
         IN <<m>> \o SortedDescending(selected \ {m})

\* sorted(selected)
RECURSIVE Sorted(_)
Sorted(selected) ==
    IF selected = {} THEN <<>>
    ELSE LET m == CHOOSE v \in selected : \A w \in selected : v <= w
         IN <<m>> \o Sorted(selected \ {m})

\* a token that names no index of the list is passed over
TokenIndicesLenient(token, total) ==
    IF \E i \in 1..Len(token) : token[i] = "-"
    THEN LET parts == SplitOnce(token, "-")
         IN IF ~IsDigit(parts[1]) \/ ~IsDigit(parts[2])
            THEN [error |-> "", values |-> {}]
            ELSE [error |-> "",
                  values |-> {value - 1 : value \in
                                 (ToInt(parts[1])..ToInt(parts[2])) \cap (1..total)}]
    ELSE IF ~IsDigit(token) THEN [error |-> "", values |-> {}]
    ELSE [error |-> "", values |-> {value - 1 : value \in {ToInt(token)} \cap (1..total)}]

\* Lines 118-138, one token: the indices it adds to selected, or the
\* ValueError it raises.
TokenIndices(token, total) ==
    IF \E i \in 1..Len(token) : token[i] = "-"
    THEN LET parts == SplitOnce(token, "-")
             start == ToInt(parts[1])
             end == ToInt(parts[2])
         IN IF ~IsDigit(parts[1]) \/ ~IsDigit(parts[2])
            THEN [error |-> "ValueError", values |-> {}]
            ELSE IF start > end THEN [error |-> "ValueError", values |-> {}]
            ELSE IF start < 1 \/ end > total THEN [error |-> "ValueError", values |-> {}]
            ELSE [error |-> "", values |-> {value - 1 : value \in start..end}]
    ELSE IF ~IsDigit(token) THEN [error |-> "ValueError", values |-> {}]
    ELSE LET index == ToInt(token)
         IN IF index < 1 \/ index > total THEN [error |-> "ValueError", values |-> {}]
            ELSE [error |-> "", values |-> {index - 1}]

\* Lines 117-138: the tokens from index i on; a ValueError ends the loop
\* and the call.
RECURSIVE SelectLoop(_, _, _, _)
SelectLoop(selected, tokens, i, total) ==
    IF i > Len(tokens) THEN [error |-> "", selected |-> selected]
    ELSE LET got == TokenIndices(tokens[i], total)
         IN IF got.error # "" THEN [error |-> got.error, selected |-> selected]
            ELSE SelectLoop(selected \cup got.values, tokens, i + 1, total)

\* [item.strip() for item in selection.split(",") if item.strip()]
StrippedTokens(selection) ==
    LET items == Split(selection, ",")
        stripped == [i \in 1..Len(items) |-> Strip(items[i])]
    IN SelectSeq(stripped, LAMBDA item : item # <<>>)

\* Lines 106-140.  error is the exception raised ("" when the call
\* returns), result the list returned.
parse_index_selection(selection, total) ==
    IF total < 0 THEN [error |-> "ValueError", result |-> <<>>]
    ELSE IF selection = <<>> \/ Strip(selection) = <<>> THEN [error |-> "", result |-> <<>>]
    ELSE LET tokens == StrippedTokens(selection)
             done == SelectLoop({}, tokens, 1, total)
         IN IF tokens = <<>> THEN [error |-> "", result |-> <<>>]
            ELSE IF done.error # "" THEN [error |-> done.error, result |-> <<>>]
            ELSE [error |-> "", result |-> Sorted(done.selected)]

\* ------------------------------------------------------- progress_manager
CURRENT_SCHEMA_VERSION == "2.0"

\* A feature of progress.json.  A key that the feature does not have is ""
\* (development_stage), 0 (completed_at and the timestamps of ai_metrics),
\* Absent (commit_hash) or <<>> (archive_info).  The id stands for the name.
NoMetrics == [started_at |-> 0, finished_at |-> 0, duration_seconds |-> 0]

Feature(id, stage) ==
    [id |-> id, completed |-> FALSE, development_stage |-> stage, completed_at |-> 0,
     commit_hash |-> Absent, ai_metrics |-> NoMetrics, archive_info |-> <<>>]

\* data without the key workflow_state.  A workflow_state without the key
\* completed_tasks has <<>> there (line 2068 reads it with the default []),
\* one without current_task has 0.
NoWorkflowState == [exists |-> FALSE, completed_tasks |-> <<>>, current_task |-> 0, updated_at |-> 0]

\* progress.json: missing, not JSON, or a document.
NoProgressFile ==
    [exists |-> FALSE, corrupted |-> FALSE,
     doc |-> [features |-> <<>>, current_feature_id |-> PyNone, updated_at |-> 0,
              schema_version |-> "", workflow_state |-> NoWorkflowState]]

NoProgressMd == [exists |-> FALSE, completed |-> <<>>, in_progress |-> <<>>, pending |-> <<>>]

\* Lines 382-395: None for a missing file and for one that is not JSON.
load_progress_json(file) ==
    IF ~file.exists \/ file.corrupted THEN [none |-> TRUE, data |-> file.doc]
    ELSE [none |-> FALSE, data |-> file.doc]

\* Lines 398-414.
save_progress_json(data, now) ==
    [exists |-> TRUE, corrupted |-> FALSE,
     doc |-> [data EXCEPT !.updated_at = now,
                          !.schema_version = IF @ = "" THEN CURRENT_SCHEMA_VERSION ELSE @]]

\* Lines 2215-2238 and 430-438: the three lists of progress.md.
generate_progress_md(data) ==
    LET features == data.features
        IsCurrent(f) == PyInt(f.id) = data.current_feature_id
    IN [exists |-> TRUE,
        completed |-> SelectSeq(features, LAMBDA f : f.completed),
        in_progress |-> SelectSeq(features, IsCurrent),
        pending |-> SelectSeq(features, LAMBDA f : ~f.completed /\ ~IsCurrent(f))]

\* next((f for f in features if f.get("id") == feature_id), None): the
\* position of the feature, 0 for None.
FindFeature(features, feature_id) ==
    IF \E i \in 1..Len(features) : features[i].id = feature_id
    THEN CHOOSE i \in 1..Len(features) :
            features[i].id = feature_id /\ \A j \in 1..(i - 1) : features[j].id # feature_id
    ELSE 0

\* Lines 1058-1080.  st holds the two files.
set_current(st, feature_id, now) ==
    LET loaded == load_progress_json(st.json)
        data == [loaded.data EXCEPT !.current_feature_id = PyInt(feature_id)]
        saved == save_progress_json(data, now)
    IN IF loaded.none \/ FindFeature(loaded.data.features, feature_id) = 0
       THEN [ret |-> FALSE, json |-> st.json, md |-> st.md]
       ELSE [ret |-> TRUE, json |-> saved, md |-> generate_progress_md(saved.doc)]

\* Lines 1150-1186.
complete_feature_ai_metrics(st, feature_id, now) ==
    LET loaded == load_progress_json(st.json)
        k == FindFeature(loaded.data.features, feature_id)
        started_at == IF loaded.data.features[k].ai_metrics.started_at = 0 THEN now
                      ELSE loaded.data.features[k].ai_metrics.started_at
        ai_metrics == [started_at |-> started_at, finished_at |-> now,
                       duration_seconds |-> IF now > started_at THEN now - started_at ELSE 0]
        data == [loaded.data EXCEPT !.features[k].ai_metrics = ai_metrics]
        saved == save_progress_json(data, now)
    IN IF loaded.none \/ k = 0
       THEN [ret |-> FALSE, json |-> st.json, md |-> st.md]
       ELSE [ret |-> TRUE, json |-> saved, md |-> generate_progress_md(saved.doc)]

\* Lines 1293-1326: the archive record of the feature is stored.
save_archive_record(st, feature_id, files_moved, now) ==
    LET loaded == load_progress_json(st.json)
        k == FindFeature(loaded.data.features, feature_id)
        data == [loaded.data EXCEPT !.features[k].archive_info =
                                       <<[archived_at |-> now, files_moved |-> files_moved]>>]
    IN IF loaded.none \/ k = 0 THEN st
       ELSE [st EXCEPT !.json = save_progress_json(data, now)]

\* Lines 1343-1393: the feature is there; metered is what
\* complete_feature_ai_metrics left.  files_moved is what
\* archive_feature_docs found to move.
CompleteLoaded(metered, feature_id, commit_hash, skip_archive, files_moved, now) ==
    LET loaded == load_progress_json(metered.json)
        k == FindFeature(loaded.data.features, feature_id)
        data == [loaded.data EXCEPT
                    !.features[k].completed = TRUE,
                    !.features[k].completed_at = now,
                    !.features[k].commit_hash = IF Truthy(commit_hash) THEN commit_hash ELSE @,
                    !.current_feature_id = PyNone]
        saved == save_progress_json(data, now)
        written == [ret |-> TRUE, json |-> saved, md |-> generate_progress_md(saved.doc)]
    IN IF loaded.none \/ k = 0
       THEN [ret |-> FALSE, json |-> metered.json, md |-> metered.md]
       ELSE IF skip_archive THEN written
       ELSE save_archive_record(written, feature_id, files_moved, now)

\* Lines 1329-1393.
complete_feature(st, feature_id, commit_hash, skip_archive, files_moved, now) ==
    LET loaded == load_progress_json(st.json)
    IN IF loaded.none \/ FindFeature(loaded.data.features, feature_id) = 0
       THEN [ret |-> FALSE, json |-> st.json, md |-> st.md]
       ELSE CompleteLoaded(complete_feature_ai_metrics(st, feature_id, now), feature_id,
                           commit_hash, skip_archive, files_moved, now)

\* --------------------------------------------------- undo_last_feature
\* The characters of a timestamp in the order of their code points.
CodePoints ==
    <<"-", ".", "0", "1", "2", "3", "4", "5", "6", "7", "8", "9", ":", "T", "Z">>

Ord(c) == CHOOSE i \in 1..Len(CodePoints) : CodePoints[i] = c

\* a < b for two str values: the first character that differs decides, and
\* a proper prefix is the smaller one.
RECURSIVE StrLess(_, _)
StrLess(a, b) ==
    IF b = <<>> THEN FALSE
    ELSE IF a = <<>> THEN TRUE
    ELSE IF Head(a) # Head(b) THEN Ord(Head(a)) < Ord(Head(b))
    ELSE StrLess(Tail(a), Tail(b))

\* Line 1356: datetime.now().isoformat() + "Z" for the instant now.  An
\* instant is half a second: isoformat writes the seconds, and the fraction
\* only when it is not zero.  The date in front is the same for every
\* instant and is written "2".
isoformat(now) ==
    <<"2", "T">> \o Digits(now \div 2)
        \o (IF now % 2 = 0 THEN <<>> ELSE <<".", "5">>) \o <<"Z">>

\* Line 1413: f.get("completed_at", "1970-01-01T00:00:00Z"), a date before
\* every instant, written "1".  A stored completed_at is the instant whose
\* text the file holds.
date_str(f) == IF f.completed_at = 0 THEN <<"1", "T", "0", "Z">> ELSE isoformat(f.completed_at)

\* Lines 1411-1414: sort_key(f) < sort_key(g) for the tuples (date_str, id).
SortKeyLess(f, g) ==
    \/ StrLess(date_str(f), date_str(g))
    \/ date_str(f) = date_str(g) /\ f.id < g.id

\* Lines 1404-1416: the position of
\* sorted(completed_features, key=sort_key, reverse=True)[0], 0 when no
\* feature is completed.  Of equal keys the sort keeps the first.
LastCompleted(features) ==
    LET completed == {i \in 1..Len(features) : features[i].completed}
        greatest == {i \in completed :
                        \A j \in completed : ~SortKeyLess(features[i], features[j])}
    IN IF completed = {} THEN 0
       ELSE CHOOSE i \in greatest : \A j \in greatest : i <= j

\* Lines 37-50: git_validator.py lies next to progress_manager.py, the
\* import succeeds.
GIT_VALIDATOR_AVAILABLE == TRUE

HexChars == {"0", "1", "2", "3", "4", "5", "6", "7", "8", "9", "a", "b", "c", "d", "e", "f"}

\* git_validator.py lines 33-61: 7 to 40 hexadecimal characters once
\* stripped.  None of DANGEROUS_CHARS is a hexadecimal character.
validate_commit_hash(commit_hash) ==
    /\ Truthy(commit_hash)
    /\ commit_hash.t = "str"
    /\ LET stripped == Strip(commit_hash.s)
       IN /\ Len(stripped) >= 7
          /\ Len(stripped) <= 40
          /\ \A i \in 1..Len(stripped) : stripped[i] \in HexChars

\* What git answers to undo_last_feature: "dirty" when git status
\* --porcelain shows a change (is_working_directory_clean is false), and
\* else how git revert ends: "ok", "nonzero" (exit code not 0) or
\* "GitCommandError" (raised by safe_git_command: time-out, git not found, a
\* refused argument).
GitOutcomes == {"dirty", "ok", "nonzero", "GitCommandError"}

\* The revert is tried and its failure ignored.
RevertIgnored(commit_hash, git) == TRUE

\* Lines 1423-1481: TRUE when the undo goes on to update the state.
RevertAllows(commit_hash, git) ==
    IF ~Truthy(commit_hash) THEN TRUE
    ELSE /\ validate_commit_hash(commit_hash)
         /\ git # "dirty"
         /\ git = "ok"

\* Lines 1396-1500.  st holds the two files.
undo_last_feature(st, git, now) ==
    LET loaded == load_progress_json(st.json)
        k == LastCompleted(loaded.data.features)
        data == [loaded.data EXCEPT !.features[k].completed = FALSE,
                                    !.features[k].completed_at = 0,
                                    !.features[k].commit_hash = Absent]
        saved == save_progress_json(data, now)
    IN IF loaded.none \/ k = 0
       THEN [ret |-> FALSE, json |-> st.json, md |-> st.md]
       ELSE IF ~RevertAllows(loaded.data.features[k].commit_hash, git)
       THEN [ret |-> FALSE, json |-> st.json, md |-> st.md]
       ELSE [ret |-> TRUE, json |-> saved, md |-> generate_progress_md(saved.doc)]

\* ------------------------------------------------- update_workflow_task
\* task_id in completed_tasks
Contains(list, item) == \E i \in 1..Len(list) : list[i] = item

\* The task is appended whether it is in the list or not.
CompletedAlwaysAppended(workflow_state, task_id, status) ==
    IF status = "completed"
    THEN [workflow_state EXCEPT !.completed_tasks = Append(@, task_id),
                                !.current_task = task_id + 1]
    ELSE workflow_state

\* Lines 2067-2072.
CompletedTaskAdded(workflow_state, task_id, status) ==
    IF status = "completed" /\ ~Contains(workflow_state.completed_tasks, task_id)
    THEN [workflow_state EXCEPT !.completed_tasks = Append(@, task_id),
                                !.current_task = task_id + 1]
    ELSE workflow_state

\* Lines 2058-2085.  st holds the two files.
update_workflow_task(st, task_id, status, now) ==
    LET loaded == load_progress_json(st.json)
        workflow_state == CompletedTaskAdded(loaded.data.workflow_state, task_id, status)
        data == [loaded.data EXCEPT !.workflow_state =
                    [workflow_state EXCEPT !.exists = TRUE, !.updated_at = now]]
        saved == save_progress_json(data, now)
    IN IF loaded.none THEN [ret |-> FALSE, json |-> st.json, md |-> st.md]
       ELSE [ret |-> TRUE, json |-> saved, md |-> generate_progress_md(saved.doc)]

\* Lines 2088-2106.
clear_workflow_state(st, now) ==
    LET loaded == load_progress_json(st.json)
        saved == save_progress_json([loaded.data EXCEPT !.workflow_state = NoWorkflowState],
                                    now)
    IN IF loaded.none THEN [ret |-> FALSE, json |-> st.json, md |-> st.md]
       ELSE IF ~loaded.data.workflow_state.exists
       THEN [ret |-> TRUE, json |-> st.json, md |-> st.md]
       ELSE [ret |-> TRUE, json |-> saved, md |-> generate_progress_md(saved.doc)]

\* ----------------------------------------------------- progress_ui_server
\* A served file: a markdown text as its lines.  A line is the status
\* character of its checkbox (" ", "x", ...), or "#" for a line without a
\* checkbox.  mtime is st_mtime in whole seconds.
NoServedFile == [exists |-> FALSE, content |-> <<>>, mtime |-> 0]

\* Lines 117-125.
CHECKBOX_STATES == {" ", "/", "x", "-", "!", "?"}

\* Lines 109-111: sha256(content).hexdigest()[:16], taken as one-to-one.
calculate_rev(content) == <<"sha256">> \o content

\* Lines 114-116.
calculate_mtime(file) == file.mtime

\* The revision alone is compared.
ValidateRevOnly(current_rev, current_mtime, base_rev, base_mtime) == current_rev = base_rev

\* Lines 168-181.
validate_put_request(current_rev, current_mtime, base_rev, base_mtime) ==
    current_rev = base_rev /\ current_mtime = base_mtime

\* full_path.write_text(new_content) at the second now.
WriteText(new_content, now) == [exists |-> TRUE, content |-> new_content, mtime |-> now]

\* The answer of a handler: the status code, the file as the handler leaves
\* it, and the rev and mtime of the response body.
Answer(status, file, rev, mtime) == [status |-> status, file |-> file, rev |-> rev, mtime |-> mtime]

\* Lines 478-522: GET /api/file of a path that passes validate_path.
handle_get_file(file) ==
    IF ~file.exists THEN Answer(404, file, <<>>, 0)
    ELSE Answer(200, file, calculate_rev(file.content), calculate_mtime(file))

\* Lines 561-676: PUT /api/file with a valid Origin, a writable path and a
\* body with the fields content, base_rev and base_mtime.
handle_put_file(file, new_content, base_rev, base_mtime, now) ==
    LET current_rev == calculate_rev(file.content)
        current_mtime == calculate_mtime(file)
        written == WriteText(new_content, now)
    IN IF file.exists
          /\ ~validate_put_request(current_rev, current_mtime, base_rev, base_mtime)
       THEN Answer(409, file, current_rev, current_mtime)
       ELSE Answer(200, written, calculate_rev(new_content), calculate_mtime(written))

\* Lines 316-476: PATCH /api/checkbox with a valid Origin, a writable path,
\* a line_index >= 0 and a new_status of CHECKBOX_STATES.
handle_patch_checkbox(file, line_index, new_status, base_rev, base_mtime, now) ==
    LET current_rev == calculate_rev(file.content)
        current_mtime == calculate_mtime(file)
        lines == file.content
        new_content == [lines EXCEPT ![line_index + 1] = new_status]
        written == WriteText(new_content, now)
    IN IF ~file.exists THEN Answer(404, file, <<>>, 0)
       ELSE IF ~validate_put_request(current_rev, current_mtime, base_rev, base_mtime)
       THEN Answer(409, file, current_rev, current_mtime)
       ELSE IF line_index >= Len(lines) THEN Answer(400, file, <<>>, 0)
       ELSE IF lines[line_index + 1] \notin CHECKBOX_STATES THEN Answer(400, file, <<>>, 0)
       ELSE Answer(200, written, calculate_rev(new_content), calculate_mtime(written))

\* ---------------------------------------------------- arguments of the CLI
\* What a --payload-json or --sync-meta-json argument holds: text that is
\* not JSON, a JSON array of candidates, a JSON object (a payload record, or
\* the sync metadata), or another JSON value.
MalformedJson == [kind |-> "malformed"]

JsonList(items) == [kind |-> "list", items |-> items]

MetaObject(sync_meta) == [kind |-> "dict", meta |-> sync_meta]

\* Lines 480-488.  expected_type is "dict" or "list".
_parse_json_arg(raw_value, expected_type) ==
    IF raw_value.kind = "malformed" \/ raw_value.kind # expected_type
    THEN [error |-> "ValueError", value |-> raw_value]
    ELSE [error |-> "", value |-> raw_value]

\* ------------------------------------------------------------- file texts
\* The content of a file is a sequence of pieces.  json.dump writes the
\* text of a document as NChunks pieces, each naming the document and its
\* position; other pieces are bytes that came from elsewhere: text that is
\* no JSON, the text of a JSON value that is no object, and bytes that are
\* no UTF-8.
Piece(kind, doc, part) == [kind |-> kind, doc |-> doc, part |-> part]

JsonDump(doc) == [i \in 1..NChunks |-> Piece("json", doc, i)]

InvalidJsonText == <<Piece("garbage", _default_memory(0), 1)>>

NonObjectText == <<Piece("nonobject", _default_memory(0), 1)>>

UndecodableBytes == <<Piece("undecodable", _default_memory(0), 1)>>

\* the isinstance check of line 214 left out: any JSON root is taken
JsonLoadAnyRoot(text) ==
    IF \E i \in 1..Len(text) : text[i].kind = "undecodable"
    THEN [result |-> "unicode", doc |-> _default_memory(0)]
    ELSE IF text # <<>> /\ text[1].kind \in {"json", "nonobject"}
    THEN [result |-> "object", doc |-> text[1].doc]
    ELSE [result |-> "json", doc |-> _default_memory(0)]

\* handle.read() followed by json.load's parse and the isinstance check of
\* lines 212-215: "unicode" is UnicodeDecodeError, "json" is
\* json.JSONDecodeError (also raised for a root that is no object), "object"
\* comes with the parsed document.
JsonLoad(text) ==
    IF \E i \in 1..Len(text) : text[i].kind = "undecodable"
    THEN [result |-> "unicode", doc |-> _default_memory(0)]
    ELSE IF Len(text) = NChunks /\ text = JsonDump(text[1].doc)
    THEN [result |-> "object", doc |-> text[1].doc]
    ELSE [result |-> "json", doc |-> _default_memory(0)]

\* ------------------------------------------------------------- file system
\* files maps a path to the file it names: whether there is one, and its
\* text.  A handle open for writing is the path it was opened on.
Procs == {1, 2}

MemPath == [kind |-> "memory", pid |-> 0, ts |-> 0]

\* no temp file: the document is written to the memory path itself
TempPathIsTarget(pid, now) == MemPath

\* Lines 235-237: .project_memory.json.tmp.<pid>.<seconds>
TempPath(pid, now) == [kind |-> "tmp", pid |-> pid, ts |-> now]

\* Line 197: project_memory.json.corrupt.<timestamp>
BackupPath(now) == [kind |-> "corrupt", pid |-> 0, ts |-> now]

NoPath == [kind |-> "none", pid |-> 0, ts |-> 0]

Paths ==
    {MemPath} \cup {TempPath(p, t) : p \in Procs, t \in 1..MaxClock}
              \cup {BackupPath(t) : t \in 1..MaxClock}

NoFile == [exists |-> FALSE, text |-> <<>>]

File(text) == [exists |-> TRUE, text |-> text]

\* open(path, "w"): the file is created, or truncated in place.
OpenForWrite(f, path) == [f EXCEPT ![path] = File(<<>>)]

\* handle.write(piece)
WritePiece(f, path, piece) ==
    IF f[path].exists THEN [f EXCEPT ![path].text = Append(@, piece)] ELSE f

\* os.replace(src, dst)
OsReplace(f, src, dst) ==
    IF src = dst THEN f ELSE [f EXCEPT ![dst] = f[src], ![src] = NoFile]

\* shutil.copy2(src, dst)
CopyFile(f, src, dst) == [f EXCEPT ![dst] = File(f[src].text)]

\* save_memory run to its end by process pid: lines 229-240.
SaveWhole(f, data, pid, now) ==
    LET temp_path == TempPath(pid, now)
        written == [OpenForWrite(f, temp_path) EXCEPT
                        ![temp_path].text = JsonDump(SavedDocument(data, now))]
    IN OsReplace(written, temp_path, MemPath)

\* load_memory run to its end by process pid: lines 207-221.
LoadWhole(f, pid, now) ==
    LET parsed == JsonLoad(f[MemPath].text)
        copied == CopyFile(f, MemPath, BackupPath(now))
    IN IF ~f[MemPath].exists
       THEN [raised |-> FALSE, data |-> _default_memory(now), recovered |-> FALSE,
             backup |-> NoPath, files |-> f]
       ELSE IF parsed.result = "object"
       THEN [raised |-> FALSE, data |-> _normalize_memory_shape(parsed.doc, now),
             recovered |-> FALSE, backup |-> NoPath, files |-> f]
       ELSE IF parsed.result = "json"
       THEN [raised |-> FALSE, data |-> _default_memory(now), recovered |-> TRUE,
             backup |-> BackupPath(now),
             files |-> SaveWhole(copied, _default_memory(now), pid, now)]
       ELSE [raised |-> TRUE, data |-> _default_memory(now), recovered |-> FALSE,
             backup |-> NoPath, files |-> f]

\* ------------------------------------------------------------------ state
VARIABLES
    clock,      \* the reading of the wall clock
    files,      \* the file system
    data,       \* Spec: the document the process holds in memory
    dirty,      \* Spec: data was changed after it was last saved or loaded
    calls,      \* Spec: calls made so far
    last,       \* Spec: the last call, its arguments, its result, data before it
    appends,    \* Spec: the append_capability calls that returned since the last
                \*       other call, the two latest at most, oldest first
    appended,   \* Spec: payloads append_capability has returned for, on this data
    syncLog,    \* Spec: the sync entry of every batch_upsert_capabilities call
    rejLog,     \* Spec: every fingerprint register_rejections added, in order
    proc,       \* SpecFS: the state of each process
    hist,       \* SpecFS: what happened on the memory path
    sel,        \* SpecSel: a parse_index_selection call and its outcome
    progress,   \* SpecPM: the file progress.json
    progress_md,\* SpecPM: the file progress.md
    pm,         \* SpecPM: the last progress_manager call and the calls made
    ui          \* SpecUI: the file the UI server serves, and its clients

docvars == <<data, dirty, calls, last, appends, appended, syncLog, rejLog>>
fsvars == <<proc, hist>>
selvars == <<sel>>
pmvars == <<progress, progress_md, pm>>
uivars == <<ui>>
vars == <<clock, files, data, dirty, calls, last, appends, appended, syncLog, rejLog,
          proc, hist, sel, progress, progress_md, pm, ui>>

\* ----------------------------------------------------------- inputs of Spec
Ta == PyText(<<"a">>)
Tb == PyText(<<"b">>)
Cc == PyText(<<"c">>)

\* title, commit hash and feature id as a caller may give them
Triples == {<<Ta, Cc, PyInt(1)>>, <<Ta, Absent, Absent>>, <<Ta, Cc, PyNone>>}

WithFingerprint(payload, fingerprint) == [payload EXCEPT !.fingerprint = fingerprint]

\* title that is blank after strip()
BlankTitle == FlatPayload(PyText(<<" ">>), Cc, PyInt(1))

\* a fingerprint given by the caller that equals a computed one
GivenComputed == WithFingerprint(FlatPayload(Tb, Absent, Absent),
                                 PyText(compute_fingerprint(Ta, Cc, PyInt(1))))

\* a confidence that float() cannot hold
HugeConfidence(payload) == [payload EXCEPT !.confidence = PyBigInt]

GivenOther == WithFingerprint(FlatPayload(Ta, Cc, PyInt(1)), PyText(<<" ", "x">>))

AppendPayloads ==
    {NestedPayload(t[1], t[2], t[3]) : t \in Triples}
        \cup {GivenComputed, BlankTitle}

\* The three shapes of one triple in one batch: the same capability
\* presented three times.
AllShapes(t) == <<NestedPayload(t[1], t[2], t[3]), FlatPayload(t[1], t[2], t[3]),
                  LegacyPayload(t[1], t[2], t[3])>>

MetaS == [NoMeta EXCEPT !.sync_id = PyText(<<"s">>), !.last_synced_commit = Cc,
                        !.rejected_count = PyInt(1)]

\* payloads and sync_meta of a batch_upsert_capabilities call
BatchInputs ==
    {[payloads |-> AllShapes(t), sync_meta |-> MetaS] : t \in Triples}
        \cup {[payloads |-> <<>>, sync_meta |-> NoMeta],
               [payloads |-> <<NotAnObject, BlankTitle, GivenOther, GivenComputed>>,
                sync_meta |-> NoMeta],
               [payloads |-> <<FlatPayload(Tb, Cc, PyInt(1)),
                               HugeConfidence(FlatPayload(Ta, Absent, PyInt(1))),
                               FlatPayload(Tb, Absent, PyInt(1))>>,
                sync_meta |-> NoMeta]}

\* payloads and sync_id of a register_rejections call
RejectInputs ==
    {[payloads |-> <<BareText(<<"x">>)>>, sync_id |-> PyNone],
     [payloads |-> <<BareText(<<"y">>), BareText(<<" ", "z">>)>>, sync_id |-> PyText(<<"s">>)],
     [payloads |-> <<NotAnObject, LegacyPayload(Ta, Cc, PyInt(1)), BareText(<<"v">>),
                     BareText(<<"v">>), BareText(<<" ">>)>>,
      sync_id |-> PyText(<<"s">>)],
     [payloads |-> <<NestedPayload(Tb, Cc, PyInt(1)), FlatPayload(Tb, Cc, Absent)>>,
      sync_id |-> PyNone]}

\* ------------------------------------------------------------------- Spec
NoCall ==
    [op |-> "none", payloads |-> <<>>, raised |-> FALSE, status |-> "",
     fingerprint |-> <<>>, capability |-> <<>>, inserted_count |-> 0,
     deduped_count |-> 0, invalid_count |-> 0, inserted_capabilities |-> <<>>,
     added_count |-> 0, added_fingerprints |-> <<>>, before |-> _default_memory(0),
     reloaded |-> FALSE, sync_id |-> PyNone, repeat |-> FALSE]

\* No parse_index_selection call yet.  tokens is what the selection was
\* written from, selection its text, raised the exception of the call,
\* result the list returned.
NoSelection ==
    [pc |-> "idle", tokens |-> <<>>, selection |-> <<>>, total |-> 0, raised |-> "",
     result |-> <<>>]

\* No progress_manager call yet.  before is progress.json before the call,
\* git what git answered to it, feature_id the feature (or the task) it was
\* about, status the status given to update_workflow_task.
NoProgressCall ==
    [calls |-> 0, op |-> "none", feature_id |-> 0, ret |-> FALSE,
     before |-> NoProgressFile, git |-> "ok", status |-> ""]

\* The clients of the UI server.
Clients == {1, 2}

\* No request yet.  method, client, status, base_rev, base_mtime and content
\* are those of the request and its answer, before is the file before it.
NoRequest ==
    [method |-> "none", client |-> 0, status |-> 0, base_rev |-> <<>>, base_mtime |-> 0,
     content |-> <<>>, before |-> NoServedFile]

\* The UI server before the first request.  base is the rev and mtime each
\* client holds: those of the last answer 200 it got, before that the
\* defaults of lines 623-624.  last is the last PUT or PATCH request or write
\* of another program, prev the one before it, requests the number of
\* requests and writes.
NoUI ==
    [file |-> NoServedFile, base |-> [c \in Clients |-> [rev |-> <<>>, mtime |-> 0]],
     last |-> NoRequest, prev |-> NoRequest, requests |-> 0]

\* A process that has not started.  cmd is the CLI command, mem the document
\* main holds, recovered and backup what load_memory returned with it, out
\* what save_memory is writing to tmp, wrote the pieces written, ret the
\* caller of the running save_memory, exit the exit code (-1: none yet),
\* seen the text load_memory read, cause the exception that made it recover,
\* copyFailed that shutil.copy2 raised, raised the exception that ended main.
\* payload, sync_meta and sync_id are the arguments --payload-json,
\* --sync-meta-json (default "{}") and --sync-id (default None).
IdleProc ==
    [pc |-> "idle", cmd |-> "none", payload |-> EmptyDict,
     sync_meta |-> MetaObject(NoMeta), sync_id |-> PyNone, mem |-> _default_memory(0),
     status |-> "", recovered |-> FALSE, backup |-> NoPath, cause |-> "",
     copyFailed |-> FALSE, out |-> _default_memory(0), tmp |-> NoPath, wrote |-> 0,
     ret |-> "", exit |-> -1, seen |-> <<>>, raised |-> ""]

\* What the memory path held at the start, the documents renamed onto it
\* since, and the process whose rename was the last one (0: none).
NoHistory == [exists |-> FALSE, initial |-> <<>>, written |-> {}, latest |-> 0]

\* A document with its two limits set to a small value, as its owner may
\* have set them in the file.
StartDocument(limit) ==
    [_default_memory(1) EXCEPT !.limits = [max_sync_history |-> limit,
                                           max_rejected_fingerprints |-> limit]]

LimitInputs == {1, 2}

\* The process has loaded the document that the memory path holds.
Init ==
    /\ clock = 1
    /\ \E limit \in LimitInputs :
          /\ data = StartDocument(limit)
          /\ files = [path \in Paths |-> IF path = MemPath
                                           THEN File(JsonDump(StartDocument(limit)))
                                           ELSE NoFile]
    /\ dirty = FALSE
    /\ calls = 0
    /\ last = NoCall
    /\ appends = <<>>
    /\ appended = {}
    /\ syncLog = <<>>
    /\ rejLog = <<>>
    /\ proc = [p \in Procs |-> IdleProc]
    /\ sel = NoSelection
    /\ progress = NoProgressFile
    /\ progress_md = NoProgressMd
    /\ pm = NoProgressCall
    /\ ui = NoUI
    /\ hist = NoHistory

AppendCapability(payload) ==
    LET result == append_capability(data, payload, clock)
    IN /\ calls < MaxCalls
       /\ calls' = calls + 1
       /\ data' = result.data
       /\ dirty' = (dirty \/ result.status = "inserted")
       /\ last' = [NoCall EXCEPT !.op = "append", !.payloads = <<payload>>,
                                 !.raised = result.raised, !.status = result.status,
                                 !.fingerprint = result.fingerprint,
                                 !.capability = result.capability, !.before = data]
       /\ appends' = IF result.raised THEN <<>>
                     ELSE IF appends = <<>> THEN <<last'>>
                     ELSE <<appends[Len(appends)], last'>>
       /\ appended' = IF result.raised THEN appended ELSE appended \cup {payload}
       /\ UNCHANGED <<clock, files, syncLog, rejLog, fsvars, selvars, pmvars, uivars>>

BatchUpsert(payloads, sync_meta) ==
    LET result == batch_upsert_capabilities(data, payloads, sync_meta, clock)
    IN /\ calls < MaxCalls
       /\ calls' = calls + 1
       /\ data' = result.data
       /\ dirty' = (dirty \/ ~result.raised \/ result.data # data)
       /\ last' = [NoCall EXCEPT !.op = "batch", !.payloads = payloads,
                                 !.raised = result.raised,
                                 !.inserted_count = result.inserted_count,
                                 !.deduped_count = result.deduped_count,
                                 !.invalid_count = result.invalid_count,
                                 !.inserted_capabilities = result.inserted_capabilities,
                                 !.before = data]
       /\ appends' = <<>>
       /\ syncLog' = IF result.raised THEN syncLog ELSE Append(syncLog, result.sync_entry)
       /\ UNCHANGED <<clock, files, appended, rejLog, fsvars, selvars, pmvars, uivars>>

RegisterRejections(payloads, sync_id) ==
    LET result == register_rejections(data, payloads, sync_id)
    IN /\ calls < MaxCalls
       /\ calls' = calls + 1
       /\ data' = result.data
       /\ dirty' = TRUE
       /\ last' = [NoCall EXCEPT !.op = "reject", !.payloads = payloads,
                                 !.sync_id = sync_id,
                                 !.invalid_count = result.invalid_count,
                                 !.added_count = result.added_count,
                                 !.added_fingerprints = result.added_fingerprints,
                                 !.before = data,
                                 !.repeat = /\ last.op = "reject"
                                            /\ last.payloads = payloads
                                            /\ last.sync_id = sync_id]
       /\ appends' = <<>>
       /\ rejLog' = rejLog \o result.added_fingerprints
       /\ UNCHANGED <<clock, files, appended, syncLog, fsvars, selvars, pmvars, uivars>>

SaveMemory ==
    /\ dirty
    /\ files' = SaveWhole(files, data, 1, clock)
    /\ dirty' = FALSE
    /\ last' = [NoCall EXCEPT !.op = "save", !.before = data]
    /\ UNCHANGED <<clock, data, calls, appends, appended, syncLog, rejLog, fsvars, selvars, pmvars, uivars>>

\* The process reloads what it saved: save_memory followed by load_memory
\* is the round trip of a document through its file.
LoadMemory ==
    LET loaded == LoadWhole(files, 1, clock)
    IN /\ ~dirty
       /\ last.op = "save"
       /\ ~loaded.raised
       /\ data' = loaded.data
       /\ files' = loaded.files
       /\ last' = [NoCall EXCEPT !.op = "load", !.before = data]
       /\ appends' = [k \in DOMAIN appends |-> [appends[k] EXCEPT !.reloaded = TRUE]]
       /\ UNCHANGED <<clock, dirty, calls, appended, syncLog, rejLog, fsvars, selvars, pmvars, uivars>>

Next ==
    \/ \E payload \in AppendPayloads : AppendCapability(payload)
    \/ \E input \in BatchInputs : BatchUpsert(input.payloads, input.sync_meta)
    \/ \E input \in RejectInputs : RegisterRejections(input.payloads, input.sync_id)
    \/ SaveMemory
    \/ LoadMemory

Spec == Init /\ [][Next]_vars

\* ----------------------------------------------------------------- SpecFS
\* What the memory path may hold before the processes start.
InitialTexts == {JsonDump(StartDocument(2)), InvalidJsonText, NonObjectText, UndecodableBytes}

CommandPayloads == {NestedPayload(Ta, Cc, PyInt(1)), LegacyPayload(Tb, Cc, PyInt(1))}

InitFS ==
    /\ clock = 1
    /\ \/ /\ files = [path \in Paths |-> NoFile]
          /\ hist = NoHistory
       \/ \E text \in InitialTexts :
             /\ files = [path \in Paths |-> IF path = MemPath THEN File(text) ELSE NoFile]
             /\ hist = [NoHistory EXCEPT !.exists = TRUE, !.initial = text]
    /\ data = _default_memory(0)
    /\ dirty = FALSE
    /\ calls = 0
    /\ last = NoCall
    /\ appends = <<>>
    /\ appended = {}
    /\ syncLog = <<>>
    /\ rejLog = <<>>
    /\ proc = [p \in Procs |-> IdleProc]
    /\ sel = NoSelection
    /\ progress = NoProgressFile
    /\ progress_md = NoProgressMd
    /\ pm = NoProgressCall
    /\ ui = NoUI

\* A run of the CLI lasts much less than a second of the clock: the second
\* changes between runs.
Tick ==
    /\ clock < MaxClock
    /\ \A p \in Procs : proc[p].pc \in {"idle", "done", "killed"}
    /\ \E p \in Procs : proc[p].pc = "idle"
    /\ clock' = clock + 1
    /\ UNCHANGED <<files, docvars, fsvars, selvars, pmvars, uivars>>

\* main is started with a command and calls load_memory (line 538), which
\* reads the file, lines 208-217.  The text is what the handle opened at line
\* 212 reads: nothing writes to a file that the memory path names, so what
\* is read at the open is what is read later.  UnicodeDecodeError is neither
\* json.JSONDecodeError nor OSError: it leaves load_memory, and main (line
\* 575) ends with exit code 1.
StartAndRead(p, cmd, payload, sync_meta, sync_id) ==
    LET text == files[MemPath].text
        parsed == JsonLoad(text)
        started == [proc EXCEPT ![p].cmd = cmd, ![p].payload = payload,
                                ![p].sync_meta = sync_meta, ![p].sync_id = sync_id,
                                ![p].seen = text]
    IN /\ proc[p].pc = "idle"
       /\ proc' = CASE ~files[MemPath].exists ->
                         [started EXCEPT ![p].pc = "loaded",
                                         ![p].mem = _default_memory(clock)]
                    [] files[MemPath].exists /\ parsed.result = "object" ->
                         [started EXCEPT ![p].pc = "loaded",
                                         ![p].mem = _normalize_memory_shape(parsed.doc, clock)]
                    [] files[MemPath].exists /\ parsed.result = "json" ->
                         [started EXCEPT ![p].pc = "backup",
                                         ![p].cause = "JSONDecodeError"]
                    [] OTHER ->
                         [started EXCEPT ![p].pc = "done", ![p].raised = "UnicodeDecodeError",
                                         ![p].exit = 1]
       /\ UNCHANGED <<clock, files, docvars, hist, selvars, pmvars, uivars>>

\* Lines 212-213 raise OSError: the file is there and cannot be read.
StartAndReadFails(p, cmd, payload, sync_meta, sync_id) ==
    /\ proc[p].pc = "idle"
    /\ files[MemPath].exists
    /\ proc' = [proc EXCEPT ![p].pc = "backup", ![p].cmd = cmd, ![p].payload = payload,
                            ![p].sync_meta = sync_meta, ![p].sync_id = sync_id,
                            ![p].cause = "OSError"]
    /\ UNCHANGED <<clock, files, docvars, hist, selvars, pmvars, uivars>>

\* Lines 218-219 and 194-202: the file is copied to the backup path, and a
\* default document is made for save_memory (line 220).
BackupCorrupted(p) ==
    /\ proc[p].pc = "backup"
    /\ proc' = [proc EXCEPT ![p].pc = "s_open", ![p].ret = "load",
                            ![p].mem = _default_memory(clock),
                            ![p].backup = IF files[MemPath].exists
                                          THEN BackupPath(clock) ELSE NoPath]
    /\ files' = IF files[MemPath].exists
                THEN CopyFile(files, MemPath, BackupPath(clock))
                ELSE files
    /\ UNCHANGED <<clock, docvars, hist, selvars, pmvars, uivars>>

\* Lines 198-201: shutil.copy2 raises OSError, no backup is made.
BackupFails(p) ==
    /\ proc[p].pc = "backup"
    /\ files[MemPath].exists
    /\ proc' = [proc EXCEPT ![p].pc = "s_open", ![p].ret = "load",
                            ![p].mem = _default_memory(clock), ![p].copyFailed = TRUE]
    /\ UNCHANGED <<clock, files, docvars, hist, selvars, pmvars, uivars>>

\* Lines 229-238: the document is normalized and the temp file opened.
SaveOpenTemp(p) ==
    LET temp_path == TempPath(p, clock)
    IN /\ proc[p].pc = "s_open"
       /\ proc' = [proc EXCEPT ![p].pc = "s_write", ![p].tmp = temp_path,
                               ![p].wrote = 0,
                               ![p].out = SavedDocument(proc[p].mem, clock)]
       /\ files' = OpenForWrite(files, temp_path)
       /\ UNCHANGED <<clock, docvars, hist, selvars, pmvars, uivars>>

\* Line 239: json.dump writes the next piece; after the last one the file
\* is closed.
SaveWritePiece(p) ==
    /\ proc[p].pc = "s_write"
    /\ files' = WritePiece(files, proc[p].tmp,
                           Piece("json", proc[p].out, proc[p].wrote + 1))
    /\ proc' = [proc EXCEPT ![p].wrote = @ + 1,
                            ![p].pc = IF proc[p].wrote + 1 = NChunks
                                      THEN "s_replace" ELSE "s_write"]
    /\ UNCHANGED <<clock, docvars, hist, selvars, pmvars, uivars>>

\* Line 240: os.replace(temp_path, memory_path).  save_memory returns to
\* load_memory (line 221) or to main (lines 554, 562, 569).  A temp file
\* that is gone makes os.replace raise, which ends main with exit code 1.
SaveReplace(p) ==
    /\ proc[p].pc = "s_replace"
    /\ IF ~files[proc[p].tmp].exists
       THEN /\ proc' = [proc EXCEPT ![p].pc = "done", ![p].exit = 1,
                                    ![p].raised = "OSError"]
            /\ UNCHANGED <<files, hist>>
       ELSE /\ files' = OsReplace(files, proc[p].tmp, MemPath)
            /\ proc' = IF proc[p].ret = "load"
                       THEN [proc EXCEPT ![p].pc = "loaded", ![p].recovered = TRUE]
                       ELSE [proc EXCEPT ![p].pc = "done", ![p].exit = 0]
            /\ hist' = [hist EXCEPT !.written = @ \cup {proc[p].out}, !.latest = p]
    /\ UNCHANGED <<clock, docvars, selvars, pmvars, uivars>>

\* Lines 546-548: read prints the document.
RunRead(p) ==
    /\ proc[p].pc = "loaded"
    /\ proc[p].cmd = "read"
    /\ proc' = [proc EXCEPT ![p].pc = "done", ![p].exit = 0]
    /\ UNCHANGED <<clock, files, docvars, hist, selvars, pmvars, uivars>>

\* Lines 575-580: an exception ends main with exit code 1.
ExitWith(p, error) ==
    [proc EXCEPT ![p].pc = "done", ![p].status = "error", ![p].raised = error,
                 ![p].exit = 1]

\* Lines 550-556: append saves when the capability was inserted.
RunAppend(p) ==
    LET payload == _parse_json_arg(proc[p].payload, "dict")
        result == append_capability(proc[p].mem, proc[p].payload, clock)
    IN /\ proc[p].pc = "loaded"
       /\ proc[p].cmd = "append"
       /\ proc' = IF payload.error # "" THEN ExitWith(p, payload.error)
                  ELSE IF result.raised THEN ExitWith(p, result.error)
                  ELSE IF result.status = "inserted"
                  THEN [proc EXCEPT ![p].pc = "s_open", ![p].ret = "main",
                                    ![p].mem = result.data, ![p].status = result.status]
                  ELSE [proc EXCEPT ![p].pc = "done", ![p].status = result.status,
                                    ![p].exit = 0]
       /\ UNCHANGED <<clock, files, docvars, hist, selvars, pmvars, uivars>>

\* Lines 558-564: batch-upsert saves whenever the call returned.
RunBatchUpsert(p) ==
    LET payloads == _parse_json_arg(proc[p].payload, "list")
        sync_meta == _parse_json_arg(proc[p].sync_meta, "dict")
        result == batch_upsert_capabilities(proc[p].mem, proc[p].payload.items,
                                            proc[p].sync_meta.meta, clock)
    IN /\ proc[p].pc = "loaded"
       /\ proc[p].cmd = "batch-upsert"
       /\ proc' = IF payloads.error # "" THEN ExitWith(p, payloads.error)
                  ELSE IF sync_meta.error # "" THEN ExitWith(p, sync_meta.error)
                  ELSE IF result.raised THEN ExitWith(p, result.error)
                  ELSE [proc EXCEPT ![p].pc = "s_open", ![p].ret = "main",
                                    ![p].mem = result.data, ![p].status = "ok"]
       /\ UNCHANGED <<clock, files, docvars, hist, selvars, pmvars, uivars>>

\* Lines 566-571: register-rejections saves whenever the call returned.
RunRegisterRejections(p) ==
    LET payloads == _parse_json_arg(proc[p].payload, "list")
        result == register_rejections(proc[p].mem, proc[p].payload.items, proc[p].sync_id)
    IN /\ proc[p].pc = "loaded"
       /\ proc[p].cmd = "register-rejections"
       /\ proc' = IF payloads.error # "" THEN ExitWith(p, payloads.error)
                  ELSE [proc EXCEPT ![p].pc = "s_open", ![p].ret = "main",
                                    ![p].mem = result.data, ![p].status = "ok"]
       /\ UNCHANGED <<clock, files, docvars, hist, selvars, pmvars, uivars>>

\* The process is killed inside save_memory: its temp file stays as it is.
\* (Killed anywhere else, a process leaves the files as one that takes no
\* further step does.)
Kill(p) ==
    /\ proc[p].pc \in {"s_write", "s_replace"}
    /\ proc' = [proc EXCEPT ![p].pc = "killed"]
    /\ UNCHANGED <<clock, files, docvars, hist, selvars, pmvars, uivars>>

NextFS ==
    \/ Tick
    \/ \E p \in Procs :
          \/ StartAndRead(p, "read", EmptyDict, MetaObject(NoMeta), PyNone)
          \/ \E payload \in CommandPayloads :
                StartAndRead(p, "append", payload, MetaObject(NoMeta), PyNone)
          \/ StartAndReadFails(p, "read", EmptyDict, MetaObject(NoMeta), PyNone)
          \/ \E payload \in CommandPayloads :
                StartAndReadFails(p, "append", payload, MetaObject(NoMeta), PyNone)
          \/ BackupCorrupted(p)
          \/ BackupFails(p)
          \/ SaveOpenTemp(p)
          \/ SaveWritePiece(p)
          \/ SaveReplace(p)
          \/ RunRead(p)
          \/ RunAppend(p)
          \/ Kill(p)

SpecFS == InitFS /\ [][NextFS]_vars

\* ---------------------------------------------------------------- SpecCLI
\* One run of the CLI, of any command with any arguments, on whatever the
\* memory path holds.
StoredDocument == append_capability(StartDocument(2), NestedPayload(Ta, Cc, PyInt(1)), 1).data

CLIInitialTexts == InitialTexts \cup {JsonDump(StoredDocument)}

CLIArgs(cmd, payload, sync_meta, sync_id) ==
    [cmd |-> cmd, payload |-> payload, sync_meta |-> sync_meta, sync_id |-> sync_id]

CLICandidates == <<NestedPayload(Ta, Cc, PyInt(1)), NotAnObject, BlankTitle,
                   LegacyPayload(Tb, Cc, PyInt(1))>>

CLIInputs ==
    {CLIArgs("read", EmptyDict, MetaObject(NoMeta), PyNone)}
        \cup {CLIArgs("append", payload, MetaObject(NoMeta), PyNone) :
                 payload \in {NestedPayload(Ta, Cc, PyInt(1)), FlatPayload(Tb, Absent, Absent),
                              BlankTitle, EmptyDict, MalformedJson, JsonList(<<>>),
                              NotAnObject}}
        \cup {CLIArgs("batch-upsert", payload, MetaObject(MetaS), PyNone) :
                 payload \in {JsonList(CLICandidates), JsonList(<<>>), MalformedJson,
                              NestedPayload(Ta, Cc, PyInt(1)), NotAnObject}}
        \cup {CLIArgs("batch-upsert", JsonList(CLICandidates), sync_meta, PyNone) :
                 sync_meta \in {MalformedJson, JsonList(<<>>), MetaObject(NoMeta)}}
        \cup {CLIArgs("register-rejections", payload, MetaObject(NoMeta), sync_id) :
                 payload \in {JsonList(CLICandidates), JsonList(<<BareText(<<"x">>)>>),
                              MalformedJson, NestedPayload(Ta, Cc, PyInt(1)),
                              BareText(<<"x">>)},
                 sync_id \in {PyNone, PyText(<<"s">>)}}

InitCLI ==
    /\ clock = 1
    /\ \/ /\ files = [path \in Paths |-> NoFile]
          /\ hist = NoHistory
       \/ \E text \in CLIInitialTexts :
             /\ files = [path \in Paths |-> IF path = MemPath THEN File(text) ELSE NoFile]
             /\ hist = [NoHistory EXCEPT !.exists = TRUE, !.initial = text]
    /\ data = _default_memory(0)
    /\ dirty = FALSE
    /\ calls = 0
    /\ last = NoCall
    /\ appends = <<>>
    /\ appended = {}
    /\ syncLog = <<>>
    /\ rejLog = <<>>
    /\ proc = [p \in Procs |-> IdleProc]
    /\ sel = NoSelection
    /\ progress = NoProgressFile
    /\ progress_md = NoProgressMd
    /\ pm = NoProgressCall
    /\ ui = NoUI

\* Process 1 is the run; process 2 never starts.
NextCLI ==
    \/ Tick
    \/ \E input \in CLIInputs :
          StartAndRead(1, input.cmd, input.payload, input.sync_meta, input.sync_id)
    \/ \E input \in CLIInputs :
          StartAndReadFails(1, input.cmd, input.payload, input.sync_meta, input.sync_id)
    \/ BackupCorrupted(1)
    \/ BackupFails(1)
    \/ SaveOpenTemp(1)
    \/ SaveWritePiece(1)
    \/ SaveReplace(1)
    \/ RunRead(1)
    \/ RunAppend(1)
    \/ RunBatchUpsert(1)
    \/ RunRegisterRejections(1)

SpecCLI == InitCLI /\ [][NextCLI]_vars

\* ---------------------------------------------------------------- SpecSel
\* One parse_index_selection call.  The selection is written from tokens: a
\* number, a range, or another text, each with spaces around it or not.
NumberToken(n, pad) == [kind |-> "number", lo |-> n, hi |-> n, pad |-> pad, text |-> <<>>]

RangeToken(lo, hi) == [kind |-> "range", lo |-> lo, hi |-> hi, pad |-> <<>>, text |-> <<>>]

OtherToken(text) == [kind |-> "other", lo |-> 0, hi |-> 0, pad |-> <<>>, text |-> text]

\* The text of a token.
TokenText(token) ==
    CASE token.kind = "number" -> token.pad \o Digits(token.lo) \o token.pad
      [] token.kind = "range"  -> Digits(token.lo) \o <<"-">> \o Digits(token.hi)
      [] OTHER                 -> token.text

\* ",".join(...) of the tokens' texts
RECURSIVE SelectionText(_)
SelectionText(tokens) ==
    IF tokens = <<>> THEN <<>>
    ELSE IF Len(tokens) = 1 THEN TokenText(tokens[1])
    ELSE TokenText(tokens[1]) \o <<",">> \o SelectionText(Tail(tokens))

SelectionTokens ==
    {NumberToken(n, <<>>) : n \in 0..3}
        \cup {NumberToken(2, <<" ">>)}
        \cup {RangeToken(1, 2), RangeToken(2, 3), RangeToken(2, 1), RangeToken(0, 1)}
        \cup {OtherToken(<<"a">>), OtherToken(<<"1", "-">>), OtherToken(<<" ">>)}

InitSel ==
    /\ clock = 1
    /\ files = [path \in Paths |-> NoFile]
    /\ hist = NoHistory
    /\ data = _default_memory(0)
    /\ dirty = FALSE
    /\ calls = 0
    /\ last = NoCall
    /\ appends = <<>>
    /\ appended = {}
    /\ syncLog = <<>>
    /\ rejLog = <<>>
    /\ proc = [p \in Procs |-> IdleProc]
    /\ sel = NoSelection
    /\ progress = NoProgressFile
    /\ progress_md = NoProgressMd
    /\ pm = NoProgressCall
    /\ ui = NoUI

\* The caller writes one more token into the selection.
WriteToken(token) ==
    /\ sel.pc = "idle"
    /\ Len(sel.tokens) < MaxTokens
    /\ sel' = [sel EXCEPT !.tokens = Append(@, token)]
    /\ UNCHANGED <<clock, files, docvars, fsvars, pmvars, uivars>>

ParseIndexSelection(total) ==
    LET selection == SelectionText(sel.tokens)
        outcome == parse_index_selection(selection, total)
    IN /\ sel.pc = "idle"
       /\ sel' = [sel EXCEPT !.pc = "done", !.selection = selection, !.total = total,
                             !.raised = outcome.error, !.result = outcome.result]
       /\ UNCHANGED <<clock, files, docvars, fsvars, pmvars, uivars>>

NextSel ==
    \/ \E token \in SelectionTokens : WriteToken(token)
    \/ \E total \in (-1)..MaxTotal : ParseIndexSelection(total)

SpecSel == InitSel /\ [][NextSel]_vars

\* ----------------------------------------------------------------- SpecPM
\* The calls of progress_manager on the progress files, one after another.
ProgressFile(features, current_feature_id) ==
    [exists |-> TRUE, corrupted |-> FALSE,
     doc |-> [features |-> features, current_feature_id |-> current_feature_id,
              updated_at |-> 1, schema_version |-> CURRENT_SCHEMA_VERSION,
              workflow_state |-> NoWorkflowState]]

FeatureIds == 1..3

InitialProgress ==
    {NoProgressFile, [NoProgressFile EXCEPT !.exists = TRUE, !.corrupted = TRUE]}
        \cup {ProgressFile(<<Feature(1, first), Feature(2, second)>>, current) :
                 first \in {"planning", "developing"}, second \in {"planning", ""},
                 current \in {PyNone, PyInt(1)}}

InitPM ==
    /\ clock = 1
    /\ files = [path \in Paths |-> NoFile]
    /\ hist = NoHistory
    /\ data = _default_memory(0)
    /\ dirty = FALSE
    /\ calls = 0
    /\ last = NoCall
    /\ appends = <<>>
    /\ appended = {}
    /\ syncLog = <<>>
    /\ rejLog = <<>>
    /\ proc = [p \in Procs |-> IdleProc]
    /\ sel = NoSelection
    /\ progress \in InitialProgress
    /\ progress_md = IF progress.exists /\ ~progress.corrupted
                     THEN generate_progress_md(progress.doc) ELSE NoProgressMd
    /\ pm = NoProgressCall
    /\ ui = NoUI

\* The files are as the call left them.
Called(op, feature_id, outcome) ==
    /\ progress' = outcome.json
    /\ progress_md' = outcome.md
    /\ pm' = [pm EXCEPT !.calls = @ + 1, !.op = op, !.feature_id = feature_id,
                         !.ret = outcome.ret, !.before = progress]

SetCurrent(feature_id) ==
    /\ pm.calls < MaxCalls
    /\ Called("set_current", feature_id,
              set_current([json |-> progress, md |-> progress_md], feature_id, clock))
    /\ UNCHANGED <<clock, files, docvars, fsvars, selvars, uivars>>

\* files_moved is the number of documents archive_feature_docs finds.
CompleteFeature(feature_id, commit_hash, skip_archive, files_moved) ==
    /\ pm.calls < MaxCalls
    /\ Called("complete_feature", feature_id,
              complete_feature([json |-> progress, md |-> progress_md], feature_id,
                               commit_hash, skip_archive, files_moved, clock))
    /\ UNCHANGED <<clock, files, docvars, fsvars, selvars, uivars>>

NextPM ==
    \/ Tick
    \/ \E feature_id \in FeatureIds : SetCurrent(feature_id)
    \/ \E feature_id \in FeatureIds, commit_hash \in {PyNone, Cc},
          skip_archive \in BOOLEAN, files_moved \in {0, 1} :
            CompleteFeature(feature_id, commit_hash, skip_archive, files_moved)

SpecPM == InitPM /\ [][NextPM]_vars

\* --------------------------------------------------------------- SpecUndo
\* Features are completed and the last completion is undone.
\* The feature undo_last_feature selects in progress.json, 0 for none.
SelectedId(file) ==
    LET k == LastCompleted(file.doc.features)
    IN IF load_progress_json(file).none \/ k = 0 THEN 0 ELSE file.doc.features[k].id

UndoLastFeature(git) ==
    /\ pm.calls < MaxUndoCalls
    /\ LET outcome == undo_last_feature([json |-> progress, md |-> progress_md], git, clock)
       IN /\ progress' = outcome.json
          /\ progress_md' = outcome.md
          /\ pm' = [pm EXCEPT !.calls = @ + 1, !.op = "undo_last_feature",
                              !.feature_id = SelectedId(progress), !.ret = outcome.ret,
                              !.before = progress, !.git = git]
    /\ UNCHANGED <<clock, files, docvars, fsvars, selvars, uivars>>

\* Time passes between two calls.
TickUndo ==
    /\ clock < MaxInstant
    /\ clock' = clock + 1
    /\ UNCHANGED <<files, docvars, fsvars, selvars, pmvars, uivars>>

\* A commit hash of seven hexadecimal characters; Cc is not one.
Hh == PyText(<<"a", "b", "c", "1", "2", "3", "4">>)

\* A feature is completed with a commit hash or without one.
CompleteWithHash(feature_id, commit_hash, skip_archive) ==
    /\ pm.calls < MaxUndoCalls
    /\ Called("complete_feature", feature_id,
              complete_feature([json |-> progress, md |-> progress_md], feature_id,
                               commit_hash, skip_archive, 1, clock))
    /\ UNCHANGED <<clock, files, docvars, fsvars, selvars, uivars>>

InitUndo ==
    /\ clock = 1
    /\ files = [path \in Paths |-> NoFile]
    /\ hist = NoHistory
    /\ data = _default_memory(0)
    /\ dirty = FALSE
    /\ calls = 0
    /\ last = NoCall
    /\ appends = <<>>
    /\ appended = {}
    /\ syncLog = <<>>
    /\ rejLog = <<>>
    /\ proc = [p \in Procs |-> IdleProc]
    /\ sel = NoSelection
    /\ progress \in {NoProgressFile,
                     ProgressFile(<<Feature(1, ""), Feature(2, "")>>, PyNone)}
    /\ progress_md = IF progress.exists THEN generate_progress_md(progress.doc)
                     ELSE NoProgressMd
    /\ pm = NoProgressCall
    /\ ui = NoUI

NextUndo ==
    \/ TickUndo
    \/ \E feature_id \in 1..2, commit_hash \in {PyNone, Cc, Hh}, skip_archive \in BOOLEAN :
          CompleteWithHash(feature_id, commit_hash, skip_archive)
    \/ \E git \in GitOutcomes : UndoLastFeature(git)

SpecUndo == InitUndo /\ [][NextUndo]_vars

\* ----------------------------------------------------------------- SpecWF
\* The tasks of a workflow are marked completed, and the workflow state is
\* cleared.
TaskIds == 1..MaxTask

\* progress.json with feature 2 in progress: without a workflow state, and
\* with tasks 1 and 2 completed.
InProgressFile == ProgressFile(<<Feature(1, ""), Feature(2, "")>>, PyInt(2))

InitialWorkflow ==
    {NoProgressFile, [NoProgressFile EXCEPT !.exists = TRUE, !.corrupted = TRUE],
     InProgressFile,
     [InProgressFile EXCEPT !.doc.workflow_state =
         [exists |-> TRUE, completed_tasks |-> <<1, 2>>, current_task |-> 3,
          updated_at |-> 1]]}

InitWF ==
    /\ clock = 1
    /\ files = [path \in Paths |-> NoFile]
    /\ hist = NoHistory
    /\ data = _default_memory(0)
    /\ dirty = FALSE
    /\ calls = 0
    /\ last = NoCall
    /\ appends = <<>>
    /\ appended = {}
    /\ syncLog = <<>>
    /\ rejLog = <<>>
    /\ proc = [p \in Procs |-> IdleProc]
    /\ sel = NoSelection
    /\ progress \in InitialWorkflow
    /\ progress_md = IF progress.exists /\ ~progress.corrupted
                     THEN generate_progress_md(progress.doc) ELSE NoProgressMd
    /\ pm = NoProgressCall
    /\ ui = NoUI

UpdateWorkflowTask(task_id, status) ==
    /\ pm.calls < MaxWorkflowCalls
    /\ LET outcome == update_workflow_task([json |-> progress, md |-> progress_md],
                                           task_id, status, clock)
       IN /\ progress' = outcome.json
          /\ progress_md' = outcome.md
          /\ pm' = [pm EXCEPT !.calls = @ + 1, !.op = "update_workflow_task",
                              !.feature_id = task_id, !.ret = outcome.ret,
                              !.before = progress, !.status = status]
    /\ UNCHANGED <<clock, files, docvars, fsvars, selvars, uivars>>

ClearWorkflowState ==
    /\ pm.calls < MaxWorkflowCalls
    /\ LET outcome == clear_workflow_state([json |-> progress, md |-> progress_md], clock)
       IN /\ progress' = outcome.json
          /\ progress_md' = outcome.md
          /\ pm' = [pm EXCEPT !.calls = @ + 1, !.op = "clear_workflow_state",
                              !.feature_id = 0, !.ret = outcome.ret,
                              !.before = progress, !.status = ""]
    /\ UNCHANGED <<clock, files, docvars, fsvars, selvars, uivars>>

NextWF ==
    \/ Tick
    \/ \E task_id \in TaskIds, status \in {"completed", "in_progress"} :
          UpdateWorkflowTask(task_id, status)
    \/ ClearWorkflowState

SpecWF == InitWF /\ [][NextWF]_vars

\* ----------------------------------------------------------------- SpecUI
\* The UI server answers the requests of its clients one after another
\* (HTTPServer, lines 1363-1370), and other programs write the file between
\* two requests.
Contents == {<<" ">>, <<"x">>, <<" ", "#">>}

InitUI ==
    /\ clock = 1
    /\ files = [path \in Paths |-> NoFile]
    /\ hist = NoHistory
    /\ data = _default_memory(0)
    /\ dirty = FALSE
    /\ calls = 0
    /\ last = NoCall
    /\ appends = <<>>
    /\ appended = {}
    /\ syncLog = <<>>
    /\ rejLog = <<>>
    /\ proc = [p \in Procs |-> IdleProc]
    /\ sel = NoSelection
    /\ progress = NoProgressFile
    /\ progress_md = NoProgressMd
    /\ pm = NoProgressCall
    /\ \E file \in {NoServedFile, WriteText(<<" ">>, 1)} : ui = [NoUI EXCEPT !.file = file]

\* The client takes the rev and mtime of an answer 200.
Answered(client, answer) ==
    IF answer.status = 200
    THEN [ui.base EXCEPT ![client] = [rev |-> answer.rev, mtime |-> answer.mtime]]
    ELSE ui.base

GetFile(client) ==
    /\ ui.requests < MaxRequests
    /\ LET answer == handle_get_file(ui.file)
       IN ui' = [ui EXCEPT !.base = Answered(client, answer), !.requests = @ + 1]
    /\ UNCHANGED <<clock, files, docvars, fsvars, selvars, pmvars>>

\* The request carries the rev and mtime the client holds.
Requested(method, client, new_content, answer) ==
    [method |-> method, client |-> client, status |-> answer.status,
     base_rev |-> ui.base[client].rev, base_mtime |-> ui.base[client].mtime,
     content |-> new_content, before |-> ui.file]

PutFile(client, new_content) ==
    /\ ui.requests < MaxRequests
    /\ LET answer == handle_put_file(ui.file, new_content, ui.base[client].rev,
                                     ui.base[client].mtime, clock)
       IN ui' = [file |-> answer.file, base |-> Answered(client, answer),
                 last |-> Requested("PUT", client, new_content, answer),
                 prev |-> ui.last, requests |-> ui.requests + 1]
    /\ UNCHANGED <<clock, files, docvars, fsvars, selvars, pmvars>>

PatchCheckbox(client, line_index, new_status) ==
    /\ ui.requests < MaxRequests
    /\ LET answer == handle_patch_checkbox(ui.file, line_index, new_status,
                                           ui.base[client].rev, ui.base[client].mtime, clock)
       IN ui' = [file |-> answer.file, base |-> Answered(client, answer),
                 last |-> Requested("PATCH", client, answer.file.content, answer),
                 prev |-> ui.last, requests |-> ui.requests + 1]
    /\ UNCHANGED <<clock, files, docvars, fsvars, selvars, pmvars>>

\* Another program (progress_manager, an editor) writes the file.
WrittenOutside(new_content) ==
    /\ ui.requests < MaxRequests
    /\ ui' = [ui EXCEPT !.file = WriteText(new_content, clock),
                        !.last = [NoRequest EXCEPT !.method = "outside",
                                                   !.content = new_content,
                                                   !.before = ui.file],
                        !.prev = ui.last,
                        !.requests = @ + 1]
    /\ UNCHANGED <<clock, files, docvars, fsvars, selvars, pmvars>>

NextUI ==
    \/ Tick
    \/ \E client \in Clients : GetFile(client)
    \/ \E client \in Clients, new_content \in Contents : PutFile(client, new_content)
    \/ \E client \in Clients, line_index \in 0..1, new_status \in {" ", "x"} :
          PatchCheckbox(client, line_index, new_status)
    \/ \E new_content \in Contents : WrittenOutside(new_content)

SpecUI == InitUI /\ [][NextUI]_vars

\* --------------------------------------------------------------- SpecNorm
\* _normalize_memory_shape is applied, again and again, to a document of
\* any shape.  A field is missing or of the wrong type (its name is in bad),
\* or has a value of the right type, fit or unfit.
BadSets ==
    {bad \in SUBSET {"schema_version", "created_at", "next_capability_seq", "capabilities",
                     "rejected_fingerprints", "limits", "max_sync_history"} :
        "limits" \in bad => "max_sync_history" \notin bad}

ShapeDocuments ==
    {[schema_version |-> sv, created_at |-> at, updated_at |-> at,
      next_capability_seq |-> seq, last_synced_commit |-> commit,
      capabilities |-> <<>>, rejected_fingerprints |-> rejected, sync_history |-> <<>>,
      limits |-> [max_sync_history |-> limit, max_rejected_fingerprints |-> 1 - limit],
      bad |-> bad] :
        sv \in {"0.9"}, at \in {0, 1}, seq \in {-1, 0, 3},
        commit \in {Absent, PyNone, Cc, PyInt(7)}, rejected \in {<<>>, <<<<"f">>>>},
        limit \in {-1, 0, 2}, bad \in BadSets}

InitNorm ==
    /\ clock = 1
    /\ files = [path \in Paths |-> NoFile]
    /\ hist = NoHistory
    /\ data \in ShapeDocuments
    /\ dirty = FALSE
    /\ calls = 0
    /\ last = NoCall
    /\ appends = <<>>
    /\ appended = {}
    /\ syncLog = <<>>
    /\ rejLog = <<>>
    /\ proc = [p \in Procs |-> IdleProc]
    /\ sel = NoSelection
    /\ progress = NoProgressFile
    /\ progress_md = NoProgressMd
    /\ pm = NoProgressCall
    /\ ui = NoUI

NormalizeMemoryShape ==
    /\ calls < MaxNormalizations
    /\ data' = _normalize_memory_shape(data, clock)
    /\ calls' = calls + 1
    /\ last' = [NoCall EXCEPT !.op = "_normalize_memory_shape", !.before = data]
    /\ UNCHANGED <<clock, files, dirty, appends, appended, syncLog, rejLog, fsvars, selvars,
                   pmvars, uivars>>

NextNorm ==
    \/ Tick
    \/ NormalizeMemoryShape

SpecNorm == InitNorm /\ [][NextNorm]_vars

\* ----------------------------------------------------------------- SpecFP
\* compute_fingerprint is called with a title, a commit hash and a feature
\* id of any kind.
FingerprintTitles == {Ta, Tb, PyText(<<" ", "A", " ">>), PyText(<<>>), PyNone}
FingerprintCommits == {Cc, PyText(<<" ", "c">>), PyText(<<>>), PyNone, PyInt(0)}
FingerprintFeatureIds == {PyInt(0), PyInt(1), PyInt(10), PyNone, PyText(<<>>), PyText(<<"0">>)}

InitFP ==
    /\ clock = 1
    /\ files = [path \in Paths |-> NoFile]
    /\ hist = NoHistory
    /\ data = _default_memory(0)
    /\ dirty = FALSE
    /\ calls = 0
    /\ last = NoCall
    /\ appends = <<>>
    /\ appended = {}
    /\ syncLog = <<>>
    /\ rejLog = <<>>
    /\ proc = [p \in Procs |-> IdleProc]
    /\ sel = NoSelection
    /\ progress = NoProgressFile
    /\ progress_md = NoProgressMd
    /\ pm = NoProgressCall
    /\ ui = NoUI

\* payloads holds the arguments of the call, fingerprint its result.
ComputeFingerprint(title, commit_hash, feature_id) ==
    /\ last' = [NoCall EXCEPT
                   !.op = "compute_fingerprint",
                   !.payloads = <<[title |-> title, commit_hash |-> commit_hash,
                                   feature_id |-> feature_id]>>,
                   !.fingerprint = compute_fingerprint(title, commit_hash, feature_id)]
    /\ UNCHANGED <<clock, files, data, dirty, calls, appends, appended, syncLog, rejLog,
                   fsvars, selvars, pmvars, uivars>>

NextFP ==
    \E title \in FingerprintTitles, commit_hash \in FingerprintCommits,
       feature_id \in FingerprintFeatureIds :
        ComputeFingerprint(title, commit_hash, feature_id)

SpecFP == InitFP /\ [][NextFP]_vars

\* ---------------------------------------------------------- claims on Spec
Min(a, b) == IF a <= b THEN a ELSE b

CountFingerprint(doc, fingerprint) ==
    Cardinality({i \in DOMAIN doc.capabilities :
                    doc.capabilities[i].fingerprint = fingerprint})

\* The last call was append_capability, and the call before it (save_memory
\* and load_memory aside) was append_capability with the same payload.
AppendedTwice ==
    /\ last.op = "append"
    /\ Len(appends) = 2
    /\ appends[1].payloads = appends[2].payloads

\* C1: append_capability called twice with the same payload, with or
\* without a save/load round trip in between, stores one record: the second
\* call returns "deduped" with no capability and leaves the document as it
\* was; the first call returns "inserted" when the fingerprint was new, and
\* next_capability_seq is then one more than before the first call.
C1_AppendTwiceStoresOnce ==
    AppendedTwice =>
        /\ appends[2].status = "deduped"
        /\ appends[2].capability = <<>>
        /\ data = last.before
        /\ CountFingerprint(data, appends[2].fingerprint) = 1
        /\ (CountFingerprint(appends[1].before, appends[1].fingerprint) = 0
               => appends[1].status = "inserted")
        /\ (appends[1].status = "inserted"
               => /\ data.next_capability_seq = appends[1].before.next_capability_seq + 1
                  /\ Len(data.capabilities) = Len(appends[1].before.capabilities) + 1)

\* The second call came after the document went through its file, and the
\* first call had inserted the record.
C1_Witness ==
    /\ AppendedTwice
    /\ appends[1].reloaded
    /\ appends[1].status = "inserted"
    /\ appends[2].status = "deduped"

\* C2: no two stored capabilities share a fingerprint.
C2_FingerprintsUnique ==
    \A i, j \in DOMAIN data.capabilities :
        i # j => data.capabilities[i].fingerprint # data.capabilities[j].fingerprint

\* A batch with the same capability three times met a document that holds
\* a record under a fingerprint its caller supplied.
C2_Witness ==
    /\ last.op = "batch"
    /\ last.payloads = AllShapes(<<Ta, Cc, PyNone>>)
    /\ last.inserted_count = 1
    /\ last.deduped_count = 2
    /\ GivenComputed \in appended
    /\ Len(data.capabilities) = 2

\* The candidate is a triple that append_capability took in the nested
\* shape, in one of the three shapes.
SeenNested(candidate) ==
    \E t \in Triples :
        /\ NestedPayload(t[1], t[2], t[3]) \in appended
        /\ candidate \in SeqToSet(AllShapes(t))

\* C3: a batch whose candidates all repeat, in the nested or a flat shape,
\* the title, commit and feature of capabilities that append_capability
\* took in the nested shape inserts nothing, counts every candidate as
\* deduped and leaves the capabilities as they were.
C3_CrossPathDedupe ==
    (/\ last.op = "batch"
     /\ last.payloads # <<>>
     /\ \A i \in DOMAIN last.payloads : SeenNested(last.payloads[i]))
        => /\ last.inserted_count = 0
           /\ last.deduped_count = Len(last.payloads)
           /\ data.capabilities = last.before.capabilities

C3_Witness ==
    /\ last.op = "batch"
    /\ last.payloads = AllShapes(<<Ta, Absent, Absent>>)
    /\ \A i \in DOMAIN last.payloads : SeenNested(last.payloads[i])
    /\ Len(data.capabilities) = 1
    /\ last.deduped_count = 3

\* A sync entry apart from rejected_count, which register_rejections may
\* rewrite later.
SyncSummary(entry) == [entry EXCEPT !.rejected_count = 0]

\* C7: sync_history holds the entries of the min(n, L) most recent
\* batch_upsert_capabilities calls, in call order, L being
\* limits.max_sync_history; right after a call its entry is the last one.
\* (syncLog holds the entries of the calls that returned.)
C7_SyncHistoryRetention ==
    LET n == Len(syncLog)
        keep == Min(n, data.limits.max_sync_history)
    IN /\ Len(data.sync_history) = keep
       /\ \A k \in 1..keep :
             SyncSummary(data.sync_history[k]) = SyncSummary(syncLog[n - keep + k])
       /\ (last.op = "batch" => /\ keep >= 1
                                /\ data.sync_history[keep] = syncLog[n])

\* C8: rejected_fingerprints never holds more than
\* limits.max_rejected_fingerprints entries, and holds the most recently
\* added fingerprints in the order they were added.
C8_RejectionRetention ==
    LET n == Len(rejLog)
        keep == Min(n, data.limits.max_rejected_fingerprints)
    IN /\ Len(data.rejected_fingerprints) <= data.limits.max_rejected_fingerprints
       /\ data.rejected_fingerprints = SubSeq(rejLog, n - keep + 1, n)

\* More fingerprints were added than the limit allows.
C8_Witness ==
    /\ last.op = "reject"
    /\ data.limits.max_rejected_fingerprints = 2
    /\ Len(rejLog) > 2
    /\ Len(data.rejected_fingerprints) = 2
    /\ last.added_count >= 1

\* --------------------------------------------------------- claims on SpecFS
Healthy(text) == JsonLoad(text).result = "object"

Unparsable(text) == JsonLoad(text).result = "json"

InitialFile == IF hist.exists THEN File(hist.initial) ELSE NoFile

\* C4: the file at the memory path changes only in the step that is the
\* os.replace of a save_memory whose temp file is completely written, and it
\* changes to exactly the text of the document that save_memory was given;
\* every other step, the writes to the temp file and the kill of a process
\* inside save_memory among them, leaves it exactly as it was (the previous
\* document, or no file).
C4_AtomicWriteUnderCrash ==
    [][files'[MemPath] # files[MemPath]
          => \E p \in Procs :
                /\ proc[p].pc = "s_replace"
                /\ proc'[p].pc \in {"loaded", "done"}
                /\ proc[p].wrote = NChunks
                /\ files'[MemPath] = File(JsonDump(proc[p].out))]_vars

\* A process was killed after it wrote a part of its temp file, and the
\* memory path still holds the document that was there at the start.
C4_Witness ==
    \E p \in Procs :
        /\ proc[p].pc = "killed"
        /\ proc[p].wrote \in 1..(NChunks - 1)
        /\ files[proc[p].tmp].exists
        /\ Len(files[proc[p].tmp].text) = proc[p].wrote
        /\ hist.exists /\ Healthy(hist.initial)
        /\ files[MemPath] = InitialFile

\* C5: what load_memory reads is the text that was at the memory path at
\* the start or the complete text of a document that a save_memory renamed
\* onto it, never a part of one; so load_memory meets unparsable text only
\* when the text at the start was unparsable and is what it read, and with
\* a healthy or absent file at the start no save of another process makes
\* it recover.
C5_NoPartialRead ==
    \A p \in Procs :
        (proc[p].pc # "idle" /\ proc[p].cause # "OSError")
            => /\ \/ proc[p].seen = InitialFile.text
                  \/ \E doc \in hist.written : proc[p].seen = JsonDump(doc)
               /\ proc[p].cause = "JSONDecodeError"
                     => /\ hist.exists /\ Unparsable(hist.initial)
                        /\ proc[p].seen = hist.initial

\* A reader has read the old document while the other process is inside
\* save_memory with a part of the new one in its temp file.
C5_Witness ==
    \E p \in Procs : \E q \in Procs \ {p} :
        /\ proc[p].cmd = "read" /\ proc[p].pc = "loaded"
        /\ hist.exists /\ Healthy(hist.initial)
        /\ proc[p].seen = hist.initial
        /\ proc[p].mem = _normalize_memory_shape(StartDocument(2), clock)
        /\ proc[q].pc = "s_write" /\ proc[q].ret = "main"
        /\ proc[q].wrote \in 1..(NChunks - 1)
        /\ files[proc[q].tmp].text # <<>>

\* Two append runs overlap: each loaded what was there at the start, each
\* inserted its capability and each has ended.
Overlapped(p, q) ==
    /\ p # q
    /\ \A r \in {p, q} :
          /\ proc[r].cmd = "append" /\ proc[r].pc = "done"
          /\ proc[r].status = "inserted"
          /\ proc[r].cause # "OSError"
          /\ proc[r].seen = InitialFile.text

FingerprintOf(p) == PayloadFingerprint(proc[p].payload)

LostUpdate(winner, loser) ==
    /\ files[MemPath] = File(JsonDump(proc[winner].out))
    /\ proc[winner].exit = 0 /\ proc[loser].exit = 0
    /\ proc[winner].raised = "" /\ proc[loser].raised = ""
    /\ FingerprintOf(winner) \in existing_fingerprints(proc[winner].out)
    /\ Len(proc[winner].out.capabilities) = Len(proc[loser].out.capabilities)
    /\ FingerprintOf(loser) # FingerprintOf(winner)
          => FingerprintOf(loser) \notin existing_fingerprints(proc[winner].out)

\* C6: when two append runs overlap, both end with exit code 0 and no
\* exception, the memory path holds exactly the document of the process
\* whose os.replace came last, and that document has the later writer's
\* capability and not the earlier writer's: nothing is merged.
C6_LastWriterWins ==
    \A p \in Procs : \A q \in Procs :
        (Overlapped(p, q) /\ hist.latest = p) => LostUpdate(p, q)

\* Both runs inserted different capabilities and only the later one's is
\* in the file.
C6_Witness ==
    \E p \in Procs : \E q \in Procs :
        /\ Overlapped(p, q) /\ hist.latest = p
        /\ LostUpdate(p, q)
        /\ FingerprintOf(q) # FingerprintOf(p)
        /\ FingerprintOf(q) \in existing_fingerprints(proc[q].out)
        /\ FingerprintOf(q) \notin existing_fingerprints(JsonLoad(files[MemPath].text).doc)

\* load_memory has just returned to the only process that has run, the
\* file at the start was unparsable, and shutil.copy2 did not fail.
RecoveredAlone(p) ==
    /\ proc[p].pc = "loaded"
    /\ \A q \in Procs \ {p} : proc[q].pc = "idle"
    /\ hist.exists /\ hist.initial \in {InvalidJsonText, NonObjectText}
    /\ ~proc[p].copyFailed

IsDefaultDocument(doc) ==
    \E t \in 1..clock : doc = _default_memory(t)

\* C9: when the memory path holds invalid JSON or a JSON value that is no
\* object and the backup copy does not fail, load_memory returns recovered
\* = true with a default document and a backup path, the file at the backup
\* path holds the bad text, and the memory path holds the complete text of
\* a default document.
C9_CorruptionRecovery ==
    \A p \in Procs :
        RecoveredAlone(p)
            => /\ proc[p].recovered
               /\ IsDefaultDocument(proc[p].mem)
               /\ proc[p].backup # NoPath
               /\ files[proc[p].backup] = File(hist.initial)
               /\ Healthy(files[MemPath].text)
               /\ \E t \in 1..clock :
                     JsonLoad(files[MemPath].text).doc = SavedDocument(proc[p].mem, t)

C9_Witness ==
    \E p \in Procs :
        /\ RecoveredAlone(p)
        /\ hist.initial = NonObjectText
        /\ proc[p].recovered
        /\ files[proc[p].backup] = File(NonObjectText)

\* C10: load_memory lets no exception through, whatever the memory path
\* holds: no run ends with an exception raised inside load_memory.
C10_LoadNeverRaises ==
    \A p \in Procs : proc[p].raised # "UnicodeDecodeError"

\* ----------------------------------------------------- more claims on Spec
\* The positions of the entries of a sync history whose sync_id is the text
\* of the given one.
Matching(history, sync_id) ==
    {i \in DOMAIN history : Truthy(sync_id) /\ history[i].sync_id = PyStr(sync_id)}

Newest(positions) == CHOOSE m \in positions : \A i \in positions : i <= m

\* C11: register_rejections(candidates, sync_id) sets rejected_count to the
\* number of candidates on the newest sync_history entry whose sync_id
\* matches and changes nothing else in sync_history: not another entry
\* (older ones with the same sync_id included), not another field of that
\* entry; with no match, or no sync_id, sync_history stays as it was.
C11_RejectionCrossReference ==
    last.op = "reject" =>
        LET before == last.before.sync_history
            matches == Matching(before, last.sync_id)
        IN IF matches = {}
           THEN data.sync_history = before
           ELSE /\ DOMAIN data.sync_history = DOMAIN before
                /\ \A i \in DOMAIN before :
                      data.sync_history[i] =
                          IF i = Newest(matches)
                          THEN [before[i] EXCEPT !.rejected_count = Len(last.payloads)]
                          ELSE before[i]

\* Two entries carry the sync_id; the newer one got a new count and the
\* older one kept its own.
C11_Witness ==
    /\ last.op = "reject"
    /\ Cardinality(Matching(last.before.sync_history, last.sync_id)) = 2
    /\ data.sync_history[2].rejected_count = Len(last.payloads)
    /\ data.sync_history[1].rejected_count # Len(last.payloads)
    /\ data.sync_history # last.before.sync_history

\* How many capabilities the call of this step inserted, by what it returned.
InsertedByStep ==
    CASE last'.op = "append" -> IF last'.status = "inserted" THEN 1 ELSE 0
      [] last'.op = "batch"  -> IF last'.raised
                                THEN Len(data'.capabilities) - Len(data.capabilities)
                                ELSE last'.inserted_count
      [] OTHER               -> 0

\* C12: in every step (append_capability, batch_upsert_capabilities,
\* register_rejections, save_memory, load_memory) next_capability_seq does
\* not decrease and grows by exactly the number of capabilities the call
\* inserted: by 1 for an inserted append, by 0 for a deduped or failed
\* append, for register_rejections and for a save or a load.
C12_SeqMonotonic ==
    [][/\ data'.next_capability_seq >= data.next_capability_seq
       /\ data'.next_capability_seq - data.next_capability_seq = InsertedByStep
       /\ InsertedByStep = Len(data'.capabilities) - Len(data.capabilities)]_vars

\* Two inserts, then a deduped or failed append or a register_rejections
\* call that left the number at 3.
C12_Witness ==
    /\ data.next_capability_seq = 3
    /\ last.before.next_capability_seq = 3
    /\ \/ last.op = "append" /\ last.status \in {"deduped", "error"}
       \/ last.op = "reject"

IsPrefix(x, y) == Len(x) <= Len(y) /\ SubSeq(y, 1, Len(x)) = x

\* C15: in every step the capabilities list of before is a prefix of the
\* list of after: no stored record is removed, moved, renumbered or changed.
C15_CapabilitiesAppendOnly ==
    [][IsPrefix(data.capabilities, data'.capabilities)]_vars

\* A record was added behind a stored one, and the document then went
\* through its file.
C15_Witness ==
    /\ last.op = "load"
    /\ Len(data.capabilities) = 2
    /\ data.capabilities[1].cap_id = CapId(1)
    /\ data.capabilities[2].cap_id = CapId(2)
    /\ data.capabilities = last.before.capabilities

\* C13: every batch_upsert_capabilities call returns, its three tallies add
\* up to the number of candidates, and inserted_count is the number of
\* records the call added to capabilities.
C13_TolerantBatch ==
    last.op = "batch" =>
        /\ ~last.raised
        /\ last.inserted_count + last.deduped_count + last.invalid_count
               = Len(last.payloads)
        /\ last.inserted_count
               = Len(data.capabilities) - Len(last.before.capabilities)

NoDuplicate(x) == \A i, j \in 1..Len(x) : x[i] = x[j] => i = j

\* The fingerprints of the candidates that yield one.
Extracted(payloads) ==
    {_extract_fingerprint_from_rejection(payloads[i]).fingerprint :
        i \in {k \in 1..Len(payloads) :
                 _extract_fingerprint_from_rejection(payloads[k]).ok}}

\* C16: rejected_fingerprints holds no fingerprint twice, and a
\* register_rejections call adds, once each, the fingerprints of its
\* candidates that the list did not hold before the call: added_count is
\* their number.
C16_RejectedDeduplicated ==
    /\ NoDuplicate(data.rejected_fingerprints)
    /\ last.op = "reject" =>
          LET fresh == Extracted(last.payloads)
                          \ SeqToSet(last.before.rejected_fingerprints)
          IN /\ last.added_count = Cardinality(fresh)
             /\ SeqToSet(last.added_fingerprints) = fresh
             /\ NoDuplicate(last.added_fingerprints)

\* A call whose candidates name one fingerprint twice and one that the list
\* already holds.
C16_Witness ==
    /\ last.op = "reject"
    /\ \E i, j \in 1..Len(last.payloads) :
          /\ i < j
          /\ _extract_fingerprint_from_rejection(last.payloads[i]).ok
          /\ _extract_fingerprint_from_rejection(last.payloads[i])
                = _extract_fingerprint_from_rejection(last.payloads[j])
    /\ Extracted(last.payloads) \cap SeqToSet(last.before.rejected_fingerprints) # {}
    /\ last.added_count < Cardinality(Extracted(last.payloads))

\* C17: the fingerprint append_capability would store for a candidate
\* object with a non-empty title is the one register_rejections records for
\* it: after the call it is among the fingerprints the call added or found
\* present.
C17_RejectionFingerprintAsAppend ==
    last.op = "reject" =>
        \A i \in 1..Len(last.payloads) :
            LET candidate == last.payloads[i]
            IN candidate.kind = "dict"
                  /\ Strip(PyStr(Get(candidate.title, PyText(<<>>)))) # <<>>
               => PayloadFingerprint(candidate)
                     \in SeqToSet(last.added_fingerprints)
                            \cup SeqToSet(last.before.rejected_fingerprints)

\* ------------------------------------------------------- claims on SpecCLI
\* C14: a run of append, batch-upsert or register-rejections that ends with
\* a validation error (an argument that is not JSON or not of the expected
\* JSON type, a capability without title) exits with code 1 and leaves the
\* memory path holding exactly what it held before the run.
C14_ValidationErrorWritesNothing ==
    proc[1].pc = "done" /\ proc[1].raised = "ValueError"
        => /\ proc[1].exit = 1
           /\ files[MemPath] = InitialFile

\* ------------------------------------------------------- claims on SpecSel
ValidToken(token, total) ==
    /\ token.kind \in {"number", "range"}
    /\ 1 <= token.lo /\ token.lo <= token.hi /\ token.hi <= total

\* a number below 1 or above total, a text that is no number, a range with
\* start > end or reaching outside 1..total
ViolatingToken(token, total) ==
    \/ token.kind \in {"number", "range"} /\ ~ValidToken(token, total)
    \/ token.kind = "other" /\ Strip(token.text) # <<>>

\* the numbers that the tokens name
Named(tokens) == UNION {tokens[i].lo..tokens[i].hi : i \in 1..Len(tokens)}

\* C18: for total >= 0 and a selection of valid tokens only, the call
\* returns a strictly ascending list within 0..total-1 that holds exactly
\* n-1 for each number n named by a token; an empty or whitespace-only
\* selection gives the empty list.
C18_SelectionSortedZeroBased ==
    sel.pc = "done" /\ sel.total >= 0 =>
        /\ (\A i \in 1..Len(sel.tokens) : ValidToken(sel.tokens[i], sel.total)) =>
              /\ sel.raised = ""
              /\ \A i \in 1..(Len(sel.result) - 1) : sel.result[i] < sel.result[i + 1]
              /\ \A i \in 1..Len(sel.result) : sel.result[i] \in 0..(sel.total - 1)
              /\ SeqToSet(sel.result) = {n - 1 : n \in Named(sel.tokens)}
        /\ Strip(sel.selection) = <<>> => sel.raised = "" /\ sel.result = <<>>

\* Valid tokens out of order that name a number twice.
C18_Witness ==
    /\ sel.pc = "done"
    /\ Len(sel.tokens) = 3
    /\ \A i \in 1..3 : ValidToken(sel.tokens[i], sel.total)
    /\ sel.tokens[1].lo > sel.tokens[2].lo
    /\ sel.tokens[3].kind = "range"
    /\ sel.tokens[1].lo \in sel.tokens[3].lo..sel.tokens[3].hi
    /\ sel.tokens[2].pad # <<>>
    /\ Len(sel.result) = 2

\* C19: when a token of the selection is a violation, the call raises and
\* returns no index, whatever the other tokens are.
C19_SelectionFailsAtomically ==
    sel.pc = "done" /\ sel.total >= 0
        /\ (\E i \in 1..Len(sel.tokens) : ViolatingToken(sel.tokens[i], sel.total))
    => sel.raised = "ValueError" /\ sel.result = <<>>

\* Two valid tokens, then a violation.
C19_Witness ==
    /\ sel.pc = "done"
    /\ Len(sel.tokens) = 3
    /\ ValidToken(sel.tokens[1], sel.total)
    /\ ValidToken(sel.tokens[2], sel.total)
    /\ ViolatingToken(sel.tokens[3], sel.total)
    /\ sel.raised = "ValueError"

\* -------------------------------------------------------- claims on SpecPM
StoredFeature(file, feature_id) == file.doc.features[FindFeature(file.doc.features, feature_id)]

\* C20: after a complete_feature call that returned True for a feature
\* that was in stage planning or developing, the stored feature has
\* completed = True and development_stage = "completed", and
\* current_feature_id is None.
C20_CompletionReachesCompletedStage ==
    pm.op = "complete_feature" /\ pm.ret
        /\ StoredFeature(pm.before, pm.feature_id).development_stage
               \in {"planning", "developing"}
    => /\ StoredFeature(progress, pm.feature_id).completed
       /\ StoredFeature(progress, pm.feature_id).development_stage = "completed"
       /\ progress.doc.current_feature_id = PyNone

\* The order of the completions themselves: by instant, then by id.
SortKeyLessByInstant(f, g) ==
    \/ f.completed_at < g.completed_at
    \/ f.completed_at = g.completed_at /\ f.id < g.id

Completed(file) == {i \in 1..Len(file.doc.features) : file.doc.features[i].completed}

Undone == pm.op = "undo_last_feature" /\ pm.ret

\* C21: an undo_last_feature call that returned True has picked, among the
\* completed features, the one with the latest completed_at (of equal ones
\* the higher id), has set its completed flag to False and removed its
\* completed_at and commit_hash, and has left the completed flag of every
\* other feature as it was.
C21_UndoRevertsOnlyTheLatest ==
    Undone =>
        /\ pm.feature_id # 0
        /\ \A i \in Completed(pm.before) :
              ~SortKeyLessByInstant(StoredFeature(pm.before, pm.feature_id),
                                    pm.before.doc.features[i])
        /\ ~StoredFeature(progress, pm.feature_id).completed
        /\ StoredFeature(progress, pm.feature_id).completed_at = 0
        /\ StoredFeature(progress, pm.feature_id).commit_hash = Absent
        /\ Len(progress.doc.features) = Len(pm.before.doc.features)
        /\ \A i \in 1..Len(progress.doc.features) :
              progress.doc.features[i].id # pm.feature_id
                  => progress.doc.features[i].completed = pm.before.doc.features[i].completed

\* --------------------------------------------------- claims on SpecUndo
\* The commit hash of the feature the last undo_last_feature call selected.
SelectedHash == StoredFeature(pm.before, pm.feature_id).commit_hash

C23_TaskCompletionIdempotent ==
    LET now == progress.doc.workflow_state
        was == pm.before.doc.workflow_state
    IN /\ \A i, j \in 1..Len(now.completed_tasks) :
             now.completed_tasks[i] = now.completed_tasks[j] => i = j
       /\ pm.op = "update_workflow_task" /\ pm.status = "completed" /\ pm.ret
              /\ Contains(was.completed_tasks, pm.feature_id)
          => /\ now.completed_tasks = was.completed_tasks
             /\ now.current_task = was.current_task

\* A task marked completed by one call is marked completed again by the
\* next.
C23_Witness ==
    /\ pm.op = "update_workflow_task" /\ pm.status = "completed" /\ pm.ret
    /\ pm.before.doc.workflow_state.completed_tasks = <<1, 2, 3>>
    /\ pm.feature_id = 3
    /\ pm.calls >= 2

\* ----------------------------------------------------- claims on SpecUI
\* The request carried the rev and mtime the file had.
BaseMatches(request) ==
    /\ request.base_rev = calculate_rev(request.before.content)
    /\ request.base_mtime = request.before.mtime

Writing(request) == request.method \in {"PUT", "PATCH"} /\ request.before.exists

\* C24: a PUT /api/file or PATCH /api/checkbox on an existing file is
\* answered 200 only when its base_rev and base_mtime equal the rev and
\* mtime of the file; when they do not it is answered 409 and the file is
\* left as it was.  So when two clients hold the same rev and mtime and the
\* PUT of the first has put a content other than the one read, the PUT or
\* PATCH the second sends next is answered 409 and the content of the
\* first stays.
C24_WritesEnforceRevAndMtime ==
    /\ Writing(ui.last) /\ ui.last.status = 200 => BaseMatches(ui.last)
    /\ Writing(ui.last) /\ ~BaseMatches(ui.last)
           => ui.last.status = 409 /\ ui.file = ui.last.before
    /\ Writing(ui.prev) /\ ui.prev.method = "PUT" /\ ui.prev.status = 200
           /\ ui.prev.content # ui.prev.before.content
           /\ ui.last.method \in {"PUT", "PATCH"}
           /\ ui.last.client # ui.prev.client
           /\ ui.last.base_rev = ui.prev.base_rev
           /\ ui.last.base_mtime = ui.prev.base_mtime
       => ui.last.status = 409 /\ ui.file.content = ui.prev.content

\* Two clients read the file, both send a PUT with a content of their own,
\* the second is answered 409.
C24_Witness ==
    /\ Writing(ui.prev) /\ ui.prev.method = "PUT" /\ ui.prev.status = 200
    /\ ui.last.method = "PUT" /\ ui.last.client # ui.prev.client
    /\ ui.last.base_rev = ui.prev.base_rev /\ ui.last.base_mtime = ui.prev.base_mtime
    /\ ui.last.content # ui.prev.content
    /\ ui.last.content # ui.prev.before.content
    /\ ui.prev.content # ui.prev.before.content
    /\ ui.last.status = 409

\* ------------------------------------------------- more claims on SpecFS
\* load_memory has just returned to the only process that has run, the
\* file at the start was unparsable, and shutil.copy2 failed.
RecoveredWithoutBackup(p) ==
    /\ proc[p].pc = "loaded"
    /\ \A q \in Procs \ {p} : proc[q].pc = "idle"
    /\ hist.exists /\ hist.initial \in {InvalidJsonText, NonObjectText}
    /\ proc[p].copyFailed

\* C25: when the memory path holds unparsable text and the backup copy
\* fails, load_memory returns recovered = true with no backup path, and
\* some file still holds the unparsable text.
C25_FailedBackupKeepsCorruptBytes ==
    \A p \in Procs :
        RecoveredWithoutBackup(p)
            => /\ proc[p].recovered
               /\ proc[p].backup = NoPath
               /\ \E path \in Paths : files[path] = File(hist.initial)

\* --------------------------------------------------- claims on SpecNorm
\* C26: after one _normalize_memory_shape no field of the document is
\* missing or of the wrong type, next_capability_seq is at least 1 and
\* both limits are positive; and normalizing the normalized document
\* leaves it as it is.
C26_NormalizationIdempotent ==
    /\ calls >= 1 =>
          /\ data.bad = {}
          /\ data.next_capability_seq >= 1
          /\ data.limits.max_sync_history > 0
          /\ data.limits.max_rejected_fingerprints > 0
          /\ data.last_synced_commit.t \in {"none", "str"}
    /\ calls >= 2 => data = last.before

\* A document with unfit limits and a sequence number below 1 was
\* normalized twice, at different readings of the clock.
C26_Witness ==
    /\ calls = 2
    /\ clock = 2
    /\ data.created_at = 1
    /\ data.limits.max_sync_history = DEFAULT_MAX_SYNC_HISTORY
    /\ data.limits.max_rejected_fingerprints = 2
    /\ data.last_synced_commit = PyText(<<"7">>)

\* ----------------------------------------------------- claims on SpecFP
\* C27: the fingerprint computed for a falsy feature id (0, None, "") is
\* the one computed for the feature id "" with the same title and commit
\* hash.
C27_FalsyFeatureIdIsEmpty ==
    last.op = "compute_fingerprint" /\ ~Truthy(last.payloads[1].feature_id)
        => last.fingerprint = compute_fingerprint(last.payloads[1].title,
                                                  last.payloads[1].commit_hash,
                                                  PyText(<<>>))

\* C29: when the memory path holds a JSON object, load_memory returns
\* recovered = false and leaves the file as it is, whether open and read
\* succeed or raise OSError.
C29_HealthyDocumentNeverReset ==
    \A p \in Procs :
        /\ proc[p].pc = "loaded"
        /\ \A q \in Procs \ {p} : proc[q].pc = "idle"
        /\ hist.exists /\ Healthy(hist.initial)
        => ~proc[p].recovered /\ files[MemPath] = File(hist.initial)

\* ----------------------------------------------- further claims on Spec
\* C28: next_capability_seq is len(capabilities) + 1, and the i-th
\* capability has the cap_id made from i, so no two capabilities have the
\* same cap_id.
C28_CapabilityIdsDense ==
    /\ data.next_capability_seq = Len(data.capabilities) + 1
    /\ \A i \in 1..Len(data.capabilities) : data.capabilities[i].cap_id = CapId(i)
    /\ \A i, j \in 1..Len(data.capabilities) :
          data.capabilities[i].cap_id = data.capabilities[j].cap_id => i = j

\* Capabilities inserted by append_capability and by
\* batch_upsert_capabilities have gone through save_memory and load_memory.
C28_Witness ==
    /\ last.op = "load"
    /\ Len(data.capabilities) >= 3
    /\ \E k \in 1..Len(syncLog) : syncLog[k].inserted_count >= 1
    /\ appended # {}

\* The register_rejections call that has just returned left the list and
\* added nothing.
SecondCallAddsNothing ==
    /\ last.added_count = 0
    /\ last.added_fingerprints = <<>>
    /\ data.rejected_fingerprints = last.before.rejected_fingerprints

\* C30, as stated: a register_rejections call that directly repeats the
\* call before it, with the same candidates, has added_count = 0 and leaves
\* rejected_fingerprints as the first call left it.
C30_RegisterRejectionsIdempotent ==
    last.op = "reject" /\ last.repeat => SecondCallAddsNothing

\* C30, amended: the repeated call has added_count = 0 and leaves
\* rejected_fingerprints as it was when the trim of the first call (line
\* 462) left every fingerprint of the candidates in the list.
C30_IdempotentWhenNothingEvicted ==
    /\ last.op = "reject"
    /\ last.repeat
    /\ Extracted(last.payloads) \subseteq SeqToSet(last.before.rejected_fingerprints)
    => SecondCallAddsNothing

\* A repeated call whose candidates name two fingerprints, both kept by
\* the first call.
C30_Witness ==
    /\ last.op = "reject"
    /\ last.repeat
    /\ Cardinality(Extracted(last.payloads)) = 2
    /\ Extracted(last.payloads) \subseteq SeqToSet(last.before.rejected_fingerprints)
    /\ last.added_count = 0

====
